---- MODULE Spec2Model ----
(***************************************************************************)
(* Imagery-to-polygon pipeline of ClimateOpsCopilot: the TTL caches and    *)
(* the /api/ingest, /api/preprocess and /api/polygons handlers of          *)
(* server/index.js, the ingestor (ingestBest) and generatePolygons.        *)
(*                                                                         *)
(* Time is in milliseconds, as Date.now() gives it.  A date string         *)
(* 'YYYY-MM-DD' is the number of its day; an instant within a date         *)
(* computation is in hours.                                                *)
(***************************************************************************)
EXTENDS Integers, Sequences, FiniteSets, TLC

\* ------------------------------------------------------------------ bounds
\* the clock runs through this many whole cache lifetimes, and within each
\* it is read at most this many milliseconds after the lifetime began
MaxLifetimes == 1
MaxDrift == 3
\* number of request slots of the server that can be in flight together
NumReqs == 2

\* ------------------------------------------------------- program constants
CACHE_TTL_MS == 3600000

\* ---------------------------------------------------------------- caches
\* getCached answers null for a missing or expired entry
Null == [isNull |-> TRUE]

\* A cache map is a function from the keys present to entries
\* [value, expires].
EmptyMap == [k \in {} |-> Null]

MapDelete(map, key) == [k \in (DOMAIN map) \ {key} |-> map[k]]

\* faulty variant: the expiry test is dropped
getCachedNoExpiry(map, key, t) ==
    IF key \notin DOMAIN map THEN Null ELSE map[key].value

\* getCached: the value returned at time t
getCached(map, key, t) ==
    IF key \notin DOMAIN map THEN Null
    ELSE IF map[key].expires # 0 /\ t > map[key].expires THEN Null
    ELSE map[key].value

\* getCached: the map it leaves behind (an expired entry is deleted)
getCachedEvict(map, key, t) ==
    IF key \in DOMAIN map /\ map[key].expires # 0 /\ t > map[key].expires
    THEN MapDelete(map, key)
    ELSE map

\* faulty variant: the entry a key already has is kept (first write wins)
setCachedKeepFirst(map, key, value, ttlMs, t) ==
    IF key \in DOMAIN map THEN map
    ELSE [k \in (DOMAIN map) \cup {key} |->
            IF k = key THEN [value |-> value, expires |-> t + ttlMs] ELSE map[k]]

\* setCached at time t
setCached(map, key, value, ttlMs, t) ==
    [k \in (DOMAIN map) \cup {key} |->
        IF k = key THEN [value |-> value, expires |-> t + ttlMs] ELSE map[k]]

\* ------------------------------------------------------------------ dates
\* `undefined` or an unparsable date string: new Date(date) is Invalid Date
InvalidDate == 0 - 1

\* A time zone of the server process: the local offset from UTC in hours is
\* base, and base + 1 on the local days dstFrom <= d < dstTo.
zoneOffset(zone, localDay) ==
    zone.base + (IF zone.dstFrom <= localDay /\ localDay < zone.dstTo THEN 1 ELSE 0)

\* the local offset in effect at a UTC instant (in hours)
offsetAtInstant(zone, inst) == zoneOffset(zone, (inst + zone.base) \div 24)

\* new Date(date); setDate(getDate() - offset); toISOString().slice(0, 10)
\* new Date('YYYY-MM-DD') is midnight UTC; getDate/setDate work on the local
\* calendar day and keep the local time of day; toISOString is UTC again.
fallbackDateStr(date, offset, zone) ==
    LET inst     == 24 * date
        local    == inst + offsetAtInstant(zone, inst)
        localDay == local \div 24
        timeOfDay == local % 24
        newDay   == localDay - offset
        newInst  == 24 * newDay + timeOfDay - zoneOffset(zone, newDay)
    IN  newInst \div 24

\* ------------------------------------------------------- geometry (turf)
\* A region is a set of pairwise disjoint axis-parallel rectangles
\* [x0, y0, x1, y1] with x0 < x1 and y0 < y1; a feature is [region |-> R].
\* turf's area, intersect and union are computed on regions, in the plane.
Min(a, b) == IF a <= b THEN a ELSE b
Max(a, b) == IF a >= b THEN a ELSE b

RectValid(r) == r.x0 < r.x1 /\ r.y0 < r.y1
RectArea(r) == (r.x1 - r.x0) * (r.y1 - r.y0)
RectInter(a, b) ==
    [x0 |-> Max(a.x0, b.x0), y0 |-> Max(a.y0, b.y0),
     x1 |-> Min(a.x1, b.x1), y1 |-> Min(a.y1, b.y1)]

\* b without a, as disjoint rectangles
RectMinus(b, a) ==
    LET i == RectInter(a, b) IN
    IF ~RectValid(i) THEN {b}
    ELSE {r \in {[x0 |-> b.x0, y0 |-> b.y0, x1 |-> i.x0, y1 |-> b.y1],
                 [x0 |-> i.x1, y0 |-> b.y0, x1 |-> b.x1, y1 |-> b.y1],
                 [x0 |-> i.x0, y0 |-> b.y0, x1 |-> i.x1, y1 |-> i.y0],
                 [x0 |-> i.x0, y0 |-> i.y1, x1 |-> i.x1, y1 |-> b.y1]} : RectValid(r)}

RECURSIVE RegionMinus(_, _)
RegionMinus(R, S) ==
    IF S = {} THEN R
    ELSE LET a == CHOOSE a \in S : TRUE
         IN  RegionMinus(UNION {RectMinus(r, a) : r \in R}, S \ {a})

RECURSIVE RegionArea(_)
RegionArea(R) ==
    IF R = {} THEN 0
    ELSE LET r == CHOOSE r \in R : TRUE IN RectArea(r) + RegionArea(R \ {r})

\* turf.area(feature)
turfArea(f) == RegionArea(f.region)

\* turf.intersect(a, b): an empty region stands for null
turfIntersect(a, b) ==
    [region |-> {i \in {RectInter(r, s) : r \in a.region, s \in b.region} : RectValid(i)}]

\* turf.union(a, b)
turfUnion(a, b) == [region |-> a.region \cup RegionMinus(b.region, a.region)]

\* turf.bboxPolygon(bbox)
turfBboxPolygon(bbox) ==
    LET r == [x0 |-> bbox[1], y0 |-> bbox[2], x1 |-> bbox[3], y1 |-> bbox[4]]
    IN  [region |-> IF RectValid(r) THEN {r} ELSE {}]

\* turf.polygon([coords]) of a ring all of whose edges are axis-parallel and
\* whose corners are the corners of a rectangle: the area enclosed is the
\* rectangle spanned by its points.
turfPolygon(coords) ==
    LET xs == {coords[i][1] : i \in 1..Len(coords)}
        ys == {coords[i][2] : i \in 1..Len(coords)}
        lo(S) == CHOOSE m \in S : \A v \in S : m <= v
        hi(S) == CHOOSE m \in S : \A v \in S : m >= v
        r == [x0 |-> lo(xs), y0 |-> lo(ys), x1 |-> hi(xs), y1 |-> hi(ys)]
    IN  [region |-> IF RectValid(r) THEN {r} ELSE {}]

\* --------------------------------------------------- polygon extraction
MaxContours == 500
CoverageLimitPct == 30
OverlapThresholdPct == 10
DefaultThreshold == 128
DefaultMinArea == 10
DefaultOutWidth == 1024

\* SENSOR_PRESETS, in the order Object.entries gives them
SENSOR_PRESETS ==
    << [id |-> "sentinel-2", threshold |-> 180, minArea |-> 100000],
       [id |-> "sentinel-1", threshold |-> 100, minArea |-> 10000],
       [id |-> "landsat-8",  threshold |-> 160, minArea |-> 50000] >>

\* An artifact name is [prefix, t]: `${prefix}_${t}.${ext}`.  The names this
\* repository makes contain a sensor identifier only as their prefix.
nameIncludes(filename, sensorId) == filename.prefix = sensorId

NoBbox == << >>

\* The decoded raster of an artifact is [width, height, lines]: lines are its
\* iso-lines, each a ring of pixel points with the level it encloses.
\* MarchingSquares.isoContours(grid, threshold): the rings of the iso-lines
\* whose level reaches the threshold, in raster order.
isoContours(raster, threshold) ==
    LET kept == SelectSeq(raster.lines, LAMBDA l : l.level >= threshold)
    IN  [i \in 1..Len(kept) |-> kept[i].ring]

\* pixel to geographic coordinates (contoursToPolygons, the map callback)
mapPoint(p, width, height, bbox) ==
    IF bbox # NoBbox
    THEN << bbox[1] + (p[1] * (bbox[3] - bbox[1])) \div width,
            bbox[4] - (p[2] * (bbox[4] - bbox[2])) \div height >>
    ELSE p

\* the coordinates of one contour, closed when first and last point differ
ringCoords(contour, width, height, bbox) ==
    LET coords == [i \in 1..Len(contour) |-> mapPoint(contour[i], width, height, bbox)]
    IN  IF Len(coords) > 0 /\ coords[1] # coords[Len(coords)]
        THEN Append(coords, coords[1])
        ELSE coords

\* contoursToPolygons: contours of fewer than 3 points are skipped, and so
\* are rings turf.polygon rejects (fewer than 4 positions)
contoursToPolygons(contours, width, height, bbox) ==
    LET rings == [i \in 1..Len(contours) |->
                    [len |-> Len(contours[i]),
                     coords |-> ringCoords(contours[i], width, height, bbox)]]
        kept == SelectSeq(rings, LAMBDA r : r.len >= 3 /\ Len(r.coords) >= 4)
    IN  [i \in 1..Len(kept) |-> turfPolygon(kept[i].coords)]

\* faulty variant: a pair at the threshold qualifies too
firstOverlapAtThreshold(merged, thresholdPct) ==
    LET qualifies(i, j) ==
            LET int == turfIntersect(merged[i], merged[j])
            IN  /\ int.region # {}
                /\ turfArea(int) * 100 >=
                     thresholdPct * Min(turfArea(merged[i]), turfArea(merged[j]))
        pairs == {q \in (1..Len(merged)) \X (1..Len(merged)) :
                     q[1] < q[2] /\ qualifies(q[1], q[2])}
    IN  IF pairs = {} THEN << >>
        ELSE CHOOSE q \in pairs :
                \A o \in pairs : q[1] < o[1] \/ (q[1] = o[1] /\ q[2] <= o[2])

\* the first pair i < j, in scan order, whose overlap ratio exceeds the
\* threshold; << >> when there is none
firstOverlap(merged, thresholdPct) ==
    LET qualifies(i, j) ==
            LET int == turfIntersect(merged[i], merged[j])
            IN  /\ int.region # {}
                /\ turfArea(int) * 100 >
                     thresholdPct * Min(turfArea(merged[i]), turfArea(merged[j]))
        pairs == {q \in (1..Len(merged)) \X (1..Len(merged)) :
                     q[1] < q[2] /\ qualifies(q[1], q[2])}
    IN  IF pairs = {} THEN << >>
        ELSE CHOOSE q \in pairs :
                \A o \in pairs : q[1] < o[1] \/ (q[1] = o[1] /\ q[2] <= o[2])

\* faulty variant: the union is stored and the second polygon stays
mergePairKeepBoth(merged, i, j) ==
    [merged EXCEPT ![i] = turfUnion(merged[i], merged[j])]

\* merged.splice(j, 1); merged[i] = union
mergePair(merged, i, j) ==
    LET union == turfUnion(merged[i], merged[j])
    IN  [k \in 1..(Len(merged) - 1) |->
            IF k = i THEN union
            ELSE IF k < j THEN merged[k] ELSE merged[k + 1]]

\* mergeOverlappingPolygons: one merge, then the scan starts again
RECURSIVE mergeOverlappingPolygons(_, _)
mergeOverlappingPolygons(features, thresholdPct) ==
    LET q == firstOverlap(features, thresholdPct) IN
    IF Len(features) = 0 \/ q = << >> THEN features
    ELSE mergeOverlappingPolygons(mergePair(features, q[1], q[2]), thresholdPct)

\* faulty variant: the caller's values whatever the name
effectiveParamsOfCaller(filename, threshold, minArea) ==
    [threshold |-> threshold, minArea |-> minArea]

\* the preset the artifact name selects: the first of SENSOR_PRESETS whose
\* identifier the name contains, else the caller's values
effectiveParams(filename, threshold, minArea) ==
    LET hits == {i \in 1..Len(SENSOR_PRESETS) : nameIncludes(filename, SENSOR_PRESETS[i].id)}
    IN  IF hits = {} THEN [threshold |-> threshold, minArea |-> minArea]
        ELSE LET i == CHOOSE i \in hits : \A h \in hits : i <= h
             IN  [threshold |-> SENSOR_PRESETS[i].threshold,
                  minArea |-> SENSOR_PRESETS[i].minArea]

EmptyCollection == [features |-> << >>]

\* faulty variant: the ceiling is compared with >=
tooManyContoursAtCeiling(n) == n >= MaxContours

\* the sanity guard on the number of raw contours
tooManyContours(n) == n > MaxContours

\* features.reduce((s, f) => s + turf.area(f), 0)
totalArea(features) ==
    LET RECURSIVE sum(_, _)
        sum(lo, hi) ==
            IF lo > hi THEN 0
            ELSE IF lo = hi THEN turfArea(features[lo])
            ELSE sum(lo, (lo + hi) \div 2) + sum((lo + hi) \div 2 + 1, hi)
    IN  sum(1, Len(features))

\* faulty variant: each polygon is held against the limit on its own
coverageExceededPerFeature(features, bbox) ==
    \E i \in 1..Len(features) :
        turfArea(features[i]) * 100 > CoverageLimitPct * turfArea(turfBboxPolygon(bbox))

\* the coverage guard: total area over bbox area above the limit
coverageExceeded(features, bbox) ==
    LET bboxArea == turfArea(turfBboxPolygon(bbox))
    IN  IF bboxArea = 0 THEN totalArea(features) > 0
        ELSE totalArea(features) * 100 > CoverageLimitPct * bboxArea

\* generatePolygons on the decoded raster of the artifact, with the stage at
\* which it returned and what each stage it ran produced
generatePolygonsRun(filename, raster, threshold, minArea, suppliedBbox) ==
    LET eff      == effectiveParams(filename, threshold, minArea)
        contours == isoContours(raster, eff.threshold)
        bbox     == suppliedBbox
        raw      == contoursToPolygons(contours, raster.width, raster.height, bbox)
        filtered == SelectSeq(raw, LAMBDA f : turfArea(f) >= eff.minArea)
        merged   == IF Len(filtered) > 1
                    THEN mergeOverlappingPolygons(filtered, OverlapThresholdPct)
                    ELSE filtered
    IN  IF tooManyContours(Len(contours))
        THEN [stage |-> "noise", threshold |-> eff.threshold, minArea |-> eff.minArea,
              nContours |-> Len(contours), nMapped |-> 0,
              nFiltered |-> 0, filtered |-> << >>, collection |-> EmptyCollection]
        ELSE IF bbox # NoBbox /\ Len(filtered) > 0 /\ coverageExceeded(filtered, bbox)
        THEN [stage |-> "coverage", threshold |-> eff.threshold, minArea |-> eff.minArea,
              nContours |-> Len(contours), nMapped |-> Len(raw),
              nFiltered |-> Len(filtered), filtered |-> filtered,
              collection |-> EmptyCollection]
        ELSE [stage |-> "done", threshold |-> eff.threshold, minArea |-> eff.minArea,
              nContours |-> Len(contours), nMapped |-> Len(raw),
              nFiltered |-> Len(filtered), filtered |-> filtered,
              collection |-> [features |-> merged]]

generatePolygons(filename, raster, threshold, minArea, suppliedBbox) ==
    generatePolygonsRun(filename, raster, threshold, minArea, suppliedBbox).collection

\* what a caller compares two collections by: the areas of the polygons,
\* in order (and with them their number)
collectionAreas(collection) ==
    [i \in 1..Len(collection.features) |-> turfArea(collection.features[i])]

\* ------------------------------------------------------------ acquisition
\* const fallbackOffsets = [7, 14, 21, 30, 45, 60]
fallbackOffsets == <<7, 14, 21, 30, 45, 60>>

\* tryFetchImagery of server/index.js keeps a payload of 1000 bytes or more
fetchAccepted(answer) ==
    /\ ~answer.failed
    /\ ~(answer.bytes = 0 \/ answer.bytes < 1000)

\* tryFetchImagery of the ingestor checks the magic bytes of the format the
\* source declares
isValidPNG(b) == b.bytes > 8 /\ b.magic = "png"
isValidTIFF(b) == b.bytes > 4 /\ b.magic = "tiff"
sourceFetchAccepted(answer, outputFormat) ==
    /\ ~answer.failed
    /\ CASE outputFormat = "image/png"  -> isValidPNG(answer)
         [] outputFormat = "image/tiff" -> isValidTIFF(answer)
         [] OTHER -> answer.bytes # 0

\* (source.outputFormat && source.outputFormat.includes('tiff')) ? 'tiff' : 'png'
sourceExt(outputFormat) == IF outputFormat = "image/tiff" THEN "tiff" ELSE "png"

\* DEFAULT_SOURCES: id, modality, declared output format
DEFAULT_SOURCES ==
    << [id |-> "sentinel-2", modality |-> "optical", outputFormat |-> "image/tiff"],
       [id |-> "sentinel-1", modality |-> "radar",   outputFormat |-> "image/tiff"],
       [id |-> "landsat-8",  modality |-> "optical", outputFormat |-> "image/tiff"] >>

\* a priority list a caller passes in place of the default: a PNG source
\* and a source whose declared format is neither PNG nor TIFF
CustomSources ==
    << [id |-> "custom-png", modality |-> "optical", outputFormat |-> "image/png"],
       [id |-> "custom-raw", modality |-> "radar",
        outputFormat |-> "application/octet-stream"] >>

\* the artifact name `${prefix}_${Date.now()}.${ext}`
artifactName(prefix, t, ext) == [prefix |-> prefix, t |-> t, ext |-> ext]
NoName == artifactName("", 0, "")

\* the provenance date a result carries: its `timestamp`, when it has one
provenanceDate(body) ==
    IF "timestamp" \in DOMAIN body THEN body.timestamp ELSE InvalidDate

\* ------------------------------------------- confidence (useClimateOps)
\* ingestData.size of a payload that carries no size
NoSize == 0 - 1

\* imageryQuality is a fraction with this denominator: 30 + size / 5000
QualityScale == 5000

\* Math.round of num / den (den > 0, num >= 0): halves go up
mathRound(num, den) == (2 * num + den) \div (2 * den)

\* faulty variant: the quality is not capped at 100
imageryQualityUncapped(size) ==
    IF size # NoSize /\ size # 0 THEN 30 * QualityScale + size ELSE 65 * QualityScale

\* ingestData.size ? Math.min(100, 30 + (ingestData.size / 5000)) : 65,
\* in units of 1 / QualityScale; a size of 0 and a missing size are falsy
imageryQuality(size) ==
    IF size # NoSize /\ size # 0
    THEN Min(100 * QualityScale, 30 * QualityScale + size)
    ELSE 65 * QualityScale

\* Math.min(90, 40 + (floodPolygons.length * 8))
polygonConfidence(n) == Min(90, 40 + n * 8)

\* Math.round((imageryQuality + polygonConfidence) / 2)
satelliteConfidence(size, n) ==
    mathRound(imageryQuality(size) + QualityScale * polygonConfidence(n), 2 * QualityScale)

\* weather && (weather.temperature !== 0 || weather.rainfall !== '0mm') ? 70 : 45
weatherConfidence(weather) ==
    IF weather.available /\ (weather.temperature # 0 \/ weather.rainfall # "0mm")
    THEN 70 ELSE 45

\* (ingestData.source ? 40 : 20) + (floodPolygons.length > 0 ? 20 : 0)
documentConfidence(source, n) ==
    (IF source THEN 40 ELSE 20) + (IF n > 0 THEN 20 ELSE 0)

\* Math.round(satellite * 0.4 + weather * 0.35 + documents * 0.25): the
\* values it can take.  0.4 and 0.35 are not binary fractions, so a sum that
\* is exactly halfway between two integers is computed a little below or at
\* the half and rounds to either neighbour; every other sum is at least
\* 0.05 from a half and rounds as the exact sum does.
overallConfidence(satellite, weather, documents) ==
    LET num == 40 * satellite + 35 * weather + 25 * documents
        r == mathRound(num, 100)
    IN  IF (2 * num + 100) % 200 = 0 THEN {r - 1, r} ELSE {r}

\* ----------------------------------------------------------------- inputs
\* the closed ring of the pixel rectangle (x0, y0)-(x1, y1)
rectRing(x0, y0, x1, y1) ==
    << <<x0, y0>>, <<x1, y0>>, <<x1, y1>>, <<x0, y1>>, <<x0, y0>> >>

\* n one-pixel spots, two pixels apart, on a 64 x 64 raster
noiseLines(n) ==
    [i \in 1..n |->
        LET x == 2 * ((i - 1) % 32)
            y == 2 * ((i - 1) \div 32)
        IN  [ring |-> rectRing(x, y, x + 1, y + 1), level |-> 255]]

RasterIds ==
    {"blob", "faint", "pair", "apart", "tenth", "chain", "open", "wide", "spread",
     "noise500", "noise501"}

rasterLines(id) ==
    CASE id = "blob"  -> << [ring |-> rectRing(16, 16, 32, 32), level |-> 200] >>
      [] id = "faint" -> << [ring |-> rectRing(16, 16, 32, 32), level |-> 150] >>
      [] id = "pair"  -> << [ring |-> rectRing(8, 8, 24, 24), level |-> 200],
                            [ring |-> rectRing(16, 16, 32, 32), level |-> 200] >>
      [] id = "apart" -> << [ring |-> rectRing(0, 0, 20, 20), level |-> 200],
                            [ring |-> rectRing(19, 0, 39, 20), level |-> 200] >>
      [] id = "tenth" -> << [ring |-> rectRing(0, 0, 20, 20), level |-> 200],
                            [ring |-> rectRing(18, 0, 38, 20), level |-> 200] >>
      [] id = "chain" -> << [ring |-> rectRing(0, 0, 16, 20), level |-> 200],
                            [ring |-> rectRing(14, 0, 30, 20), level |-> 200],
                            [ring |-> rectRing(6, 19, 24, 27), level |-> 200] >>
      [] id = "open"  -> << [ring |-> << <<40, 40>>, <<48, 40>>, <<48, 48>>, <<40, 48>> >>,
                             level |-> 200],
                            [ring |-> << <<2, 2>>, <<3, 3>> >>, level |-> 200],
                            [ring |-> << <<5, 5>>, <<6, 5>>, <<5, 5>> >>, level |-> 200] >>
      [] id = "wide"  -> << [ring |-> rectRing(0, 0, 48, 48), level |-> 200] >>
      [] id = "spread" -> << [ring |-> rectRing(0, 0, 28, 28), level |-> 200],
                             [ring |-> rectRing(32, 32, 60, 60), level |-> 200] >>
      [] id = "flat"  -> << >>
      [] id = "noise500" -> noiseLines(MaxContours)
      [] id = "noise501" -> noiseLines(MaxContours + 1)

\* what readRasterGrid decodes from an artifact holding raster `id`
rasterOf(id) == [width |-> 64, height |-> 64, lines |-> rasterLines(id)]

\* The content of an artifact is [raster, width, magic, normalized]: the
\* raster it shows, the width it was resized to, the image format of its
\* bytes ("none": not an image) and whether its contrast was stretched.
\* sharp decodes it to the raster scaled to that width, with the levels
\* stretched so that the highest becomes 255.
decodeRaster(content) ==
    LET base == rasterOf(content.raster)
        scale(v) == (v * content.width) \div base.width
        top == IF base.lines = << >> THEN 255
               ELSE CHOOSE m \in {base.lines[i].level : i \in 1..Len(base.lines)} :
                       \A i \in 1..Len(base.lines) : base.lines[i].level <= m
        level(l) == IF content.normalized THEN (l * 255) \div top ELSE l
    IN  [width |-> content.width,
         height |-> scale(base.height),
         lines |-> [i \in 1..Len(base.lines) |->
                      [ring |-> [k \in 1..Len(base.lines[i].ring) |->
                                   << scale(base.lines[i].ring[k][1]),
                                      scale(base.lines[i].ring[k][2]) >>],
                       level |-> level(base.lines[i].level)]]]

Bboxes == {<<0, 0, 3200, 3200>>, <<0, 0, 640, 1280>>}
Thresholds == {DefaultThreshold, 160}
MinAreas == {DefaultMinArea, 300}

CacheKeys == {"k1", "k2"}
CacheValues == {[v |-> 1], [v |-> 2]}
CacheTtls == {1, CACHE_TTL_MS}
ClockSteps == {1, CACHE_TTL_MS}

\* ------------------------------------------------------------------ state
VARIABLES
    now,             \* Date.now()
    kv,              \* a cache map under getCached / setCached calls
    lastGet,         \* the last getCached call on kv: what was stored, what it returned
    gp,              \* a generatePolygons call: its arguments, then its run
    hook,            \* the useClimateOps hook: inputs and results of its computations
    post,            \* an axiosPostWithRetry call: its attempts and waits
    env,             \* process.env and the time zone of the process
    ingestCache,     \* key {bbox, date} -> {filename}
    preprocessCache, \* key filename|bbox|outWidth|outFormat -> {outFilename}
    polygonsCache,   \* key filename|threshold|minArea -> collection
    files,           \* the data directory: artifact name -> content
    req,             \* the requests in flight and answered, by slot
    ingestWrites     \* the setCached calls on ingestCache so far, in order, each
                     \* with whether another request for the key was in flight

cacheVars == <<kv, lastGet>>
serverVars == <<env, ingestCache, preprocessCache, polygonsCache, files, req, ingestWrites>>
calls == <<gp, hook, post>>
vars == <<now, kv, lastGet, gp, hook, post, env, ingestCache, preprocessCache,
          polygonsCache, files, req, ingestWrites>>

Reqs == 1..NumReqs

NoGet == [key |-> "", found |-> FALSE, expired |-> FALSE, stored |-> Null, result |-> Null]
NoCall == [phase |-> "none"]
NoHook == [phase |-> "none"]
NoPost == [phase |-> "none"]
NoResp == [status |-> 0, body |-> Null]

\* A request slot: where its handler stands (pc), its arguments and locals,
\* its response, and for the record whether the response came from a cache
\* and whether the artifact the cache entry stands for was on disk then.
NewReq ==
    [pc |-> "idle", kind |-> "", args |-> Null, tokenToUse |-> FALSE,
     exchange |-> "none", attempt |-> 0, tried |-> << >>, filename |-> NoName,
     content |-> Null, resp |-> NoResp, fromCache |-> FALSE, backing |-> FALSE,
     sent |-> << >>, answer |-> Null]

ZoneUTC == [base |-> 0, dstFrom |-> 0, dstTo |-> 0]
\* one hour east of UTC, summer time until local day 98
ZoneEast == [base |-> 1, dstFrom |-> 0, dstTo |-> 98]
\* five hours west of UTC, summer time until local day 98
ZoneWest == [base |-> 0 - 5, dstFrom |-> 0, dstTo |-> 98]

\* a provider request for (source, date) goes out: q.sent lists the requests
\* of the invocation in order, each with how it ended ("pending", "nodata",
\* "valid", or "unsaved" when the valid payload could not be stored)
sendRequest(q, source, date) ==
    [q EXCEPT !.sent = Append(q.sent, [source |-> source, date |-> date,
                                       outcome |-> "pending"])]

\* the request sent last has ended
settle(q, outcome) == [q EXCEPT !.sent[Len(q.sent)].outcome = outcome]

respond(q, status, body) == [q EXCEPT !.pc = "done", !.resp = [status |-> status, body |-> body]]

\* the clock advances
Tick(d) ==
    /\ (now + d) \div CACHE_TTL_MS <= MaxLifetimes
    /\ (now + d) % CACHE_TTL_MS <= MaxDrift
    /\ now' = now + d

\* ------------------------------------------------- the cache map on its own
CacheSet(key, value, ttlMs) ==
    /\ kv' = setCached(kv, key, value, ttlMs, now)
    /\ UNCHANGED <<now, lastGet, calls>>
    /\ UNCHANGED serverVars

CacheGet(key) ==
    /\ lastGet' = [key |-> key,
                   found |-> key \in DOMAIN kv,
                   expired |-> key \in DOMAIN kv /\ kv[key].expires < now,
                   stored |-> IF key \in DOMAIN kv THEN kv[key].value ELSE Null,
                   result |-> getCached(kv, key, now)]
    /\ kv' = getCachedEvict(kv, key, now)
    /\ UNCHANGED <<now, calls>>
    /\ UNCHANGED serverVars

CacheTick ==
    /\ \E d \in ClockSteps : Tick(d)
    /\ UNCHANGED <<kv, lastGet, calls>>
    /\ UNCHANGED serverVars

ServerIdle ==
    /\ ingestCache = EmptyMap
    /\ preprocessCache = EmptyMap
    /\ polygonsCache = EmptyMap
    /\ files = EmptyMap
    /\ req = [r \in Reqs |-> NewReq]
    /\ ingestWrites = << >>

InitCache ==
    /\ now = 1
    /\ kv = EmptyMap
    /\ lastGet = NoGet
    /\ gp = NoCall
    /\ hook = NoHook
    /\ post = NoPost
    /\ env = [url |-> FALSE, accessToken |-> FALSE, creds |-> FALSE, zone |-> ZoneUTC]
    /\ ServerIdle

NextCache ==
    \/ \E k \in CacheKeys, v \in CacheValues, ttl \in CacheTtls : CacheSet(k, v, ttl)
    \/ \E k \in CacheKeys : CacheGet(k)
    \/ CacheTick

SpecCache == InitCache /\ [][NextCache]_vars

\* ------------------------------------------- generatePolygons on its own
GeneratePolygonsCall ==
    /\ gp.phase = "args"
    /\ gp' = [gp EXCEPT !.phase = "returned",
                        !.run = generatePolygonsRun(gp.filename, rasterOf(gp.raster),
                                    gp.threshold, gp.minArea, gp.bbox)]
    /\ UNCHANGED <<now, kv, lastGet, hook, post>>
    /\ UNCHANGED serverVars

InitPolygons ==
    /\ now = 1
    /\ kv = EmptyMap
    /\ lastGet = NoGet
    /\ gp \in [phase : {"args"},
               filename : {artifactName(p, 1, "tiff") : p \in {"upload", "sentinel-2", "sentinel-1", "landsat-8"}},
               raster : RasterIds,
               threshold : Thresholds,
               minArea : MinAreas,
               bbox : Bboxes \cup {NoBbox},
               run : {NoCall}]
    /\ hook = NoHook
    /\ post = NoPost
    /\ env = [url |-> FALSE, accessToken |-> FALSE, creds |-> FALSE, zone |-> ZoneUTC]
    /\ ServerIdle

NextPolygons == GeneratePolygonsCall

SpecPolygons == InitPolygons /\ [][NextPolygons]_vars

\* ------------------------- mergeOverlappingPolygons, pass by pass
MaxMergeLen == 3

rectFeature(x0, y0, x1, y1) == [region |-> {[x0 |-> x0, y0 |-> y0, x1 |-> x1, y1 |-> y1]}]

\* polygons to merge: two that overlap by exactly a tenth of the smaller, one
\* that overlaps both by half and more, one apart, one that holds the first three
MergeFeatures ==
    {rectFeature(0, 0, 20, 20), rectFeature(18, 0, 38, 20), rectFeature(10, 0, 30, 20),
     rectFeature(100, 100, 120, 120), rectFeature(0, 0, 40, 40)}

MergeInputs == UNION {[1..n -> MergeFeatures] : n \in 0..MaxMergeLen}

\* the two for-loops of one pass: the scan stops at the first qualifying
\* pair (changed = true) or runs to its end without one; an empty input
\* returns before the loop
MergeScan ==
    /\ gp.phase = "scan"
    /\ IF Len(gp.merged) = 0
       THEN gp' = [gp EXCEPT !.phase = "returned"]
       ELSE gp' = [gp EXCEPT !.phase = "scanned", !.passes = gp.passes + 1,
                             !.pair = firstOverlap(gp.merged, gp.thresholdPct)]
    /\ UNCHANGED <<now, kv, lastGet, hook, post>>
    /\ UNCHANGED serverVars

\* the end of the pass: the pair found is merged and the loop runs again, or
\* changed is false and the function returns
MergePass ==
    /\ gp.phase = "scanned"
    /\ IF gp.pair = << >>
       THEN gp' = [gp EXCEPT !.phase = "returned"]
       ELSE gp' = [gp EXCEPT !.phase = "scan",
                             !.merged = mergePair(gp.merged, gp.pair[1], gp.pair[2]),
                             !.merges = gp.merges + 1]
    /\ UNCHANGED <<now, kv, lastGet, hook, post>>
    /\ UNCHANGED serverVars

InitMerge ==
    /\ now = 1
    /\ kv = EmptyMap
    /\ lastGet = NoGet
    /\ gp \in [phase : {"scan"}, features : MergeInputs, merged : MergeInputs,
               thresholdPct : {OverlapThresholdPct, 50}, passes : {0}, merges : {0},
               pair : {<< >>}]
    /\ gp.merged = gp.features
    /\ hook = NoHook
    /\ post = NoPost
    /\ env = [url |-> FALSE, accessToken |-> FALSE, creds |-> FALSE, zone |-> ZoneUTC]
    /\ ServerIdle

NextMerge ==
    \/ MergeScan
    \/ MergePass

\* the loop is straight-line code: a pass that can run does run
SpecMerge == InitMerge /\ [][NextMerge]_vars /\ WF_vars(NextMerge)

\* ------------------------------- the confidence computation on its own
\* what startAnalysis computes the confidence from: the size of the ingested
\* artifact, the number of polygons, whether the ingest payload names a
\* source, and the weather fetched
Sizes == {NoSize, 0, 1, 5000, 174999, 175000, 350000, 350001, 1000000}
PolygonCounts == {0, 1, 6, 7}
WeatherInputs ==
    {[available |-> FALSE, temperature |-> 0, rainfall |-> "0mm"],
     [available |-> TRUE, temperature |-> 0, rainfall |-> "0mm"],
     [available |-> TRUE, temperature |-> 27, rainfall |-> "0mm"],
     [available |-> TRUE, temperature |-> 0, rainfall |-> "12mm"]}
ConfidenceInputs ==
    [size : Sizes, polygons : PolygonCounts, source : BOOLEAN, weather : WeatherInputs]

NoMetrics == [computed |-> FALSE]

\* run i of startAnalysis computes its confidence metrics
ConfidenceRun(i) ==
    /\ hook.phase = "confidence"
    /\ ~hook.out[i].computed
    /\ LET in == hook.in[i]
           satellite == satelliteConfidence(in.size, in.polygons)
           weather == weatherConfidence(in.weather)
           documents == documentConfidence(in.source, in.polygons)
       IN  \E overall \in overallConfidence(satellite, weather, documents) :
              hook' = [hook EXCEPT !.out[i] =
                          [computed |-> TRUE,
                           imageryQuality |-> imageryQuality(in.size),
                           polygonConfidence |-> polygonConfidence(in.polygons),
                           satellite |-> satellite,
                           weather |-> weather,
                           documents |-> documents,
                           overall |-> overall]]
    /\ UNCHANGED <<now, kv, lastGet, gp, post>>
    /\ UNCHANGED serverVars

\* two runs whose inputs differ at most in the size and the polygon count
InitConfidence ==
    /\ now = 1
    /\ kv = EmptyMap
    /\ lastGet = NoGet
    /\ gp = NoCall
    /\ post = NoPost
    /\ \E a, b \in ConfidenceInputs :
          /\ a.source = b.source
          /\ a.weather = b.weather
          /\ hook = [phase |-> "confidence", in |-> <<a, b>>, out |-> <<NoMetrics, NoMetrics>>]
    /\ env = [url |-> FALSE, accessToken |-> FALSE, creds |-> FALSE, zone |-> ZoneUTC]
    /\ ServerIdle

NextConfidence == \E i \in {1, 2} : ConfidenceRun(i)

SpecConfidence == InitConfidence /\ [][NextConfidence]_vars

\* -------------------------------------- axiosPostWithRetry on its own
\* the defaults of the parameters: retries = 3, delay = 1000
DefaultRetries == 3
DefaultDelay == 1000

\* how one axios.post ends: resolved, or rejected by a network error, a 5xx
\* response or a 4xx response (axios rejects every status outside 2xx)
PostOutcomes == {"ok", "network", "5xx", "4xx"}

\* if (retries <= 0) throw err
budgetUsedUp(retries) == retries <= 0

\* faulty variant: the delay stays as it is
sameDelay(delay) == delay

\* the delay handed to the next call: delay * 2
nextDelay(delay) == delay * 2

\* axios.post has ended.  post.posts lists how each POST of the call ended;
\* after a rejection the call throws when the budget is used up, else it
\* sets the timer.
PostAnswer(outcome) ==
    /\ post.phase = "post"
    /\ LET p == [post EXCEPT !.posts = Append(post.posts, outcome)] IN
       IF outcome = "ok"
       THEN post' = [p EXCEPT !.phase = "returned"]
       ELSE IF budgetUsedUp(post.retries)
       THEN post' = [p EXCEPT !.phase = "thrown", !.error = outcome]
       ELSE post' = [p EXCEPT !.phase = "wait", !.failedAt = now]
    /\ UNCHANGED <<now, kv, lastGet, gp, hook>>
    /\ UNCHANGED serverVars

\* the timer fires after `delay` ms and the function calls itself with
\* retries - 1 and the next delay: the next POST goes out
PostWake ==
    /\ post.phase = "wait"
    /\ now' = now + post.delay
    /\ post' = [post EXCEPT !.phase = "post",
                            !.waits = Append(post.waits, now' - post.failedAt),
                            !.retries = post.retries - 1,
                            !.delay = nextDelay(post.delay)]
    /\ UNCHANGED <<kv, lastGet, gp, hook>>
    /\ UNCHANGED serverVars

\* The caller's request is over before the call has ended: its client has
\* gone away or its overall time limit has passed.  The options handed to
\* axios.post hold a per-POST timeout and no signal, and the timer of the
\* backoff is never cleared, so the call itself takes no notice.
PostCancel ==
    /\ post.phase \in {"post", "wait"}
    /\ ~post.cancelled
    /\ post' = [post EXCEPT !.cancelled = TRUE]
    /\ UNCHANGED <<now, kv, lastGet, gp, hook>>
    /\ UNCHANGED serverVars

\* a call with the defaults, or with a budget and a delay of the caller's;
\* the first POST is out
InitPost ==
    /\ now = 1
    /\ kv = EmptyMap
    /\ lastGet = NoGet
    /\ gp = NoCall
    /\ hook = NoHook
    /\ post \in [phase : {"post"},
                 args : [retries : {0, 1, DefaultRetries}, delay : {250, DefaultDelay}],
                 retries : {0, 1, DefaultRetries},
                 delay : {250, DefaultDelay},
                 posts : {<< >>}, waits : {<< >>}, failedAt : {0}, error : {""},
                 cancelled : {FALSE}]
    /\ post.retries = post.args.retries
    /\ post.delay = post.args.delay
    /\ env = [url |-> TRUE, accessToken |-> TRUE, creds |-> FALSE, zone |-> ZoneUTC]
    /\ ServerIdle

NextPost ==
    \/ \E outcome \in PostOutcomes : PostAnswer(outcome)
    \/ PostWake
    \/ PostCancel

SpecPost == InitPost /\ [][NextPost]_vars

\* ------------------------------------------------------ POST /api/ingest
\* fs.promises.writeFile into the data directory: the name now holds content
writeFile(dir, name, content) ==
    [k \in (DOMAIN dir) \cup {name} |-> IF k = name THEN content ELSE dir[k]]

\* JSON.stringify({ bbox, date })
ingestKey(args) == [bbox |-> args.bbox, date |-> args.date]

\* what an artifact saved from a provider payload holds
payloadContent(answer) ==
    [raster |-> "blob", width |-> 64, magic |-> answer.magic, normalized |-> FALSE]

\* From the token decision on, up to the first await: the warning branch
\* (which calls alert, a name Node does not define, so a ReferenceError
\* reaches the outer catch), the cache lookup and the first provider request,
\* or the start of the placeholder.
ingestAfterToken(q, tok) ==
    IF env.url /\ ~tok
    THEN [q |-> respond(q, 500, [ok |-> FALSE, error |-> "ReferenceError: alert is not defined"]),
          cache |-> ingestCache]
    ELSE IF env.url /\ tok
    THEN LET key == ingestKey(q.args)
             cached == getCached(ingestCache, key, now)
             evicted == getCachedEvict(ingestCache, key, now)
         IN  IF cached # Null /\ cached.filename \in DOMAIN files
             THEN [q |-> [respond(q, 200, [ok |-> TRUE, source |-> "cache",
                                           path |-> cached.filename])
                             EXCEPT !.tokenToUse = TRUE, !.fromCache = TRUE,
                                    !.backing = TRUE],
                   cache |-> evicted]
             ELSE [q |-> sendRequest([q EXCEPT !.pc = "fetch", !.tokenToUse = TRUE,
                                               !.attempt = 0,
                                               !.tried = << q.args.date >>],
                                     "sentinel-2", q.args.date),
                   cache |-> evicted]
    ELSE [q |-> [q EXCEPT !.pc = "render"], cache |-> ingestCache]

\* the handler from its entry to its first await
IngestStart(r, args) ==
    /\ req[r].pc = "idle"
    /\ LET q == [req[r] EXCEPT !.kind = "ingest", !.args = args] IN
       IF args.file
       THEN \* multer has stored the upload as upload_<now><ext>
            LET name == artifactName("upload", now, "tiff") IN
            /\ files' = writeFile(files, name, [raster |-> "blob", width |-> 64, magic |-> "tiff",
                                             normalized |-> FALSE])
            /\ req' = [req EXCEPT ![r] = respond(q, 200, [ok |-> TRUE, source |-> "upload",
                                                          path |-> name])]
            /\ UNCHANGED ingestCache
       ELSE IF args.bbox = NoBbox
       THEN /\ req' = [req EXCEPT ![r] = respond(q, 400, [error |-> "Missing or invalid bbox"])]
            /\ UNCHANGED <<ingestCache, files>>
       ELSE IF ~(args.token \/ env.accessToken) /\ env.creds
       THEN /\ req' = [req EXCEPT ![r] = [q EXCEPT !.pc = "token"]]
            /\ UNCHANGED <<ingestCache, files>>
       ELSE LET next == ingestAfterToken(q, args.token \/ env.accessToken) IN
            /\ req' = [req EXCEPT ![r] = next.q]
            /\ ingestCache' = next.cache
            /\ UNCHANGED files
    /\ UNCHANGED <<now, calls, env, preprocessCache, polygonsCache, ingestWrites>>
    /\ UNCHANGED cacheVars

\* the client-credentials exchange has answered: with a token, with a body
\* that holds no access_token, or with an error (caught and logged)
IngestToken(r, outcome) ==
    /\ req[r].pc = "token"
    /\ req[r].kind = "ingest"
    /\ LET q == [req[r] EXCEPT !.exchange = outcome]
           next == ingestAfterToken(q, outcome = "token")
       IN  /\ req' = [req EXCEPT ![r] = next.q]
           /\ ingestCache' = next.cache
    /\ UNCHANGED <<now, calls, env, preprocessCache, polygonsCache, files, ingestWrites>>
    /\ UNCHANGED cacheVars

\* tryFetchImagery for the date last tried has answered; on no data the loop
\* over fallbackOffsets issues the request for the next older date
IngestFetch(r, answer) ==
    /\ req[r].pc = "fetch"
    /\ req[r].kind = "ingest"
    /\ LET accepted == fetchAccepted(answer)
           q == settle([req[r] EXCEPT !.answer = answer],
                       IF accepted THEN "valid" ELSE "nodata")
       IN
       IF accepted
       THEN req' = [req EXCEPT ![r] =
                       [q EXCEPT !.pc = "save",
                                 !.filename = artifactName("sentinel", now, "tiff"),
                                 !.content = payloadContent(answer)]]
       ELSE IF q.attempt = Len(fallbackOffsets)
       THEN req' = [req EXCEPT ![r] =
                       respond(q, 500, [error |-> "No Sentinel-2 imagery available",
                                        triedFrom |-> q.args.date,
                                        backToDaysPrior |-> 60])]
       ELSE IF q.args.date = InvalidDate
       THEN \* toISOString of an Invalid Date throws a RangeError
            req' = [req EXCEPT ![r] =
                       respond(q, 500, [ok |-> FALSE, error |-> "RangeError: Invalid time value"])]
       ELSE LET fallback == fallbackDateStr(q.args.date, fallbackOffsets[q.attempt + 1],
                                            env.zone)
            IN  req' = [req EXCEPT ![r] =
                           sendRequest([q EXCEPT !.attempt = q.attempt + 1,
                                                 !.tried = Append(q.tried, fallback)],
                                       "sentinel-2", fallback)]
    /\ UNCHANGED <<now, calls, env, ingestCache, preprocessCache, polygonsCache, files,
                   ingestWrites>>
    /\ UNCHANGED cacheVars

\* saveBufferToFile has ended: the entry is cached and the payload returned,
\* or the write failed
IngestSave(r, written) ==
    /\ req[r].pc = "save"
    /\ req[r].kind = "ingest"
    /\ LET q == req[r]
           key == ingestKey(q.args)
           value == [filename |-> q.filename]
       IN  IF written
           THEN /\ files' = writeFile(files, q.filename, q.content)
                /\ ingestCache' = setCached(ingestCache, key, value, CACHE_TTL_MS, now)
                /\ ingestWrites' = Append(ingestWrites,
                       [key |-> key, value |-> value,
                        concurrent |-> \E o \in Reqs \ {r} :
                                          /\ req[o].kind = "ingest"
                                          /\ req[o].pc \in {"fetch", "save"}
                                          /\ ingestKey(req[o].args) = key])
                /\ req' = [req EXCEPT ![r] =
                              respond(q, 200, [ok |-> TRUE, source |-> "sentinel-hub",
                                               path |-> q.filename])]
           ELSE /\ req' = [req EXCEPT ![r] =
                              respond(settle(q, "unsaved"), 500,
                                      [error |-> "Failed to save imagery"])]
                /\ UNCHANGED <<files, ingestCache, ingestWrites>>
    /\ UNCHANGED <<now, calls, env, preprocessCache, polygonsCache>>
    /\ UNCHANGED cacheVars

\* sharp has rendered the placeholder SVG to PNG, or thrown
IngestRender(r, rendered) ==
    /\ req[r].pc = "render"
    /\ req[r].kind = "ingest"
    /\ LET q == req[r] IN
       IF rendered
       THEN req' = [req EXCEPT ![r] =
                       [q EXCEPT !.pc = "savePlaceholder",
                                 !.filename = artifactName("placeholder", now, q.args.format),
                                 !.content = [raster |-> "flat", width |-> 1024,
                                              magic |-> "png", normalized |-> FALSE]]]
       ELSE req' = [req EXCEPT ![r] = respond(q, 500, [ok |-> FALSE, error |-> "Error"])]
    /\ UNCHANGED <<now, calls, env, ingestCache, preprocessCache, polygonsCache, files,
                   ingestWrites>>
    /\ UNCHANGED cacheVars

\* the placeholder has been written to the data directory, or the write failed
IngestSavePlaceholder(r, written) ==
    /\ req[r].pc = "savePlaceholder"
    /\ req[r].kind = "ingest"
    /\ LET q == req[r] IN
       IF written
       THEN /\ files' = writeFile(files, q.filename, q.content)
            /\ req' = [req EXCEPT ![r] =
                          respond(q, 200, [ok |-> TRUE, source |-> "placeholder",
                                           path |-> q.filename])]
       ELSE /\ req' = [req EXCEPT ![r] = respond(q, 500, [ok |-> FALSE, error |-> "Error"])]
            /\ UNCHANGED files
    /\ UNCHANGED <<now, calls, env, ingestCache, preprocessCache, polygonsCache, ingestWrites>>
    /\ UNCHANGED cacheVars

\* ------------------------------------------------ ingestBest (ingestor)
\* faulty variant: the loop gives up after the first source
bestNextSourceGiveUp(q) ==
    IF q.attempt >= 1
    THEN respond(q, 0, [success |-> FALSE])
    ELSE sendRequest([q EXCEPT !.attempt = q.attempt + 1,
                               !.tried = Append(q.tried, q.args.priority[q.attempt + 1].id)],
                     q.args.priority[q.attempt + 1].id, q.args.date)

\* the loop over the priority list moves to the source after `attempt`, or
\* returns { success: false } when there is none
bestNextSource(q) ==
    IF q.attempt = Len(q.args.priority)
    THEN respond(q, 0, [success |-> FALSE])
    ELSE sendRequest([q EXCEPT !.attempt = q.attempt + 1,
                               !.tried = Append(q.tried, q.args.priority[q.attempt + 1].id)],
                     q.args.priority[q.attempt + 1].id, q.args.date)

\* ingestBest from its entry to the await of the token request
BestStart(r, args) ==
    /\ req[r].pc = "idle"
    /\ LET q == [req[r] EXCEPT !.kind = "best", !.args = args] IN
       IF args.creds = "none"
       THEN req' = [req EXCEPT ![r] =
                       respond(q, 0, [thrown |-> TRUE,
                                      error |-> "No Sentinel Hub credentials provided"])]
       ELSE req' = [req EXCEPT ![r] = [q EXCEPT !.pc = "token"]]
    /\ UNCHANGED <<now, calls, env, ingestCache, preprocessCache, polygonsCache, files,
                   ingestWrites>>
    /\ UNCHANGED cacheVars

\* requestClientToken has ended; with only one of id and secret it throws
\* before any request
BestToken(r, outcome) ==
    /\ req[r].pc = "token"
    /\ req[r].kind = "best"
    /\ req[r].args.creds = "partial" => outcome = "failed"
    /\ LET q == [req[r] EXCEPT !.exchange = outcome] IN
       IF outcome = "failed"
       THEN req' = [req EXCEPT ![r] =
                       respond(q, 0, [thrown |-> TRUE,
                                      error |-> "Failed to obtain Sentinel Hub token"])]
       ELSE req' = [req EXCEPT ![r] =
                       bestNextSource([q EXCEPT !.pc = "fetch",
                                                !.tokenToUse = (outcome = "token")])]
    /\ UNCHANGED <<now, calls, env, ingestCache, preprocessCache, polygonsCache, files,
                   ingestWrites>>
    /\ UNCHANGED cacheVars

\* ingestSource: tryFetchImagery for the current source has answered
BestFetch(r, answer) ==
    /\ req[r].pc = "fetch"
    /\ req[r].kind = "best"
    /\ LET source == req[r].args.priority[req[r].attempt]
           accepted == sourceFetchAccepted(answer, source.outputFormat)
           q == settle([req[r] EXCEPT !.answer = answer],
                       IF accepted THEN "valid" ELSE "nodata")
       IN  IF accepted
           THEN req' = [req EXCEPT ![r] =
                           [q EXCEPT !.pc = "save",
                                     !.filename = artifactName(source.id, now,
                                                      sourceExt(source.outputFormat)),
                                     !.content = payloadContent(answer)]]
           ELSE req' = [req EXCEPT ![r] = bestNextSource(q)]
    /\ UNCHANGED <<now, calls, env, ingestCache, preprocessCache, polygonsCache, files,
                   ingestWrites>>
    /\ UNCHANGED cacheVars

\* ingestSource: saveBufferToFile has ended; a failed write throws, and the
\* loop of ingestBest goes on with the next source
BestSave(r, written) ==
    /\ req[r].pc = "save"
    /\ req[r].kind = "best"
    /\ LET q == req[r]
           source == q.args.priority[q.attempt]
       IN  IF written
           THEN /\ files' = writeFile(files, q.filename, q.content)
                /\ req' = [req EXCEPT ![r] =
                              respond(q, 0, [success |-> TRUE, source |-> source.id,
                                             modality |-> source.modality,
                                             timestamp |-> q.args.date,
                                             filename |-> q.filename])]
           ELSE /\ req' = [req EXCEPT ![r] =
                              bestNextSource([settle(q, "unsaved") EXCEPT !.pc = "fetch"])]
                /\ UNCHANGED files
    /\ UNCHANGED <<now, calls, env, ingestCache, preprocessCache, polygonsCache, ingestWrites>>
    /\ UNCHANGED cacheVars

\* ---------------------------------------------------- POST /api/preprocess
\* `${filename}|${JSON.stringify(bbox||null)}|${outWidth||''}|${outFormat||''}`
preprocessKey(args) ==
    [filename |-> args.filename, bbox |-> args.bbox, outWidth |-> args.outWidth,
     outFormat |-> args.outFormat]

\* the handler up to the first await of preprocessFile
PreprocessStart(r, args) ==
    /\ req[r].pc = "idle"
    /\ LET q == [req[r] EXCEPT !.kind = "preprocess", !.args = args]
           key == preprocessKey(args)
           cached == getCached(preprocessCache, key, now)
       IN  IF args.filename = NoName
           THEN /\ req' = [req EXCEPT ![r] =
                              respond(q, 400, [ok |-> FALSE, error |-> "Missing filename in body"])]
                /\ UNCHANGED preprocessCache
           ELSE /\ preprocessCache' = getCachedEvict(preprocessCache, key, now)
                /\ IF cached # Null /\ cached.outFilename \in DOMAIN files
                   THEN req' = [req EXCEPT ![r] =
                                   [respond(q, 200, [ok |-> TRUE, outFilename |-> cached.outFilename])
                                       EXCEPT !.fromCache = TRUE, !.backing = TRUE]]
                   ELSE IF args.filename \notin DOMAIN files
                   THEN req' = [req EXCEPT ![r] =
                                   respond(q, 500, [ok |-> FALSE, error |-> "Input file not found"])]
                   ELSE req' = [req EXCEPT ![r] =
                                   [q EXCEPT !.pc = "process", !.content = files[args.filename]]]
    /\ UNCHANGED <<now, calls, env, ingestCache, polygonsCache, files, ingestWrites>>
    /\ UNCHANGED cacheVars

\* sharp has decoded, resized, normalized and encoded the image (or thrown on
\* bytes that are no image); the output name is taken from the clock
PreprocessEncode(r) ==
    /\ req[r].pc = "process"
    /\ LET q == req[r] IN
       IF q.content.magic = "none"
       THEN req' = [req EXCEPT ![r] =
                       respond(q, 500, [ok |-> FALSE, error |-> "Input buffer contains unsupported image format"])]
       ELSE req' = [req EXCEPT ![r] =
                       [q EXCEPT !.pc = "write",
                                 !.filename = artifactName("processed", now, q.args.outFormat),
                                 !.content = [raster |-> q.content.raster,
                                              width |-> q.args.outWidth,
                                              magic |-> q.args.outFormat,
                                              normalized |-> TRUE]]]
    /\ UNCHANGED <<now, calls, env, ingestCache, preprocessCache, polygonsCache, files,
                   ingestWrites>>
    /\ UNCHANGED cacheVars

\* faulty variant: the entry is cached before the write has ended, so a
\* failed write leaves it behind
PreprocessSaveCacheFirst(r, written) ==
    /\ req[r].pc = "write"
    /\ LET q == req[r] IN
       /\ preprocessCache' = setCached(preprocessCache, preprocessKey(q.args),
                                       [outFilename |-> q.filename], CACHE_TTL_MS, now)
       /\ IF written
          THEN /\ files' = writeFile(files, q.filename, q.content)
               /\ req' = [req EXCEPT ![r] =
                             respond(q, 200, [ok |-> TRUE, outFilename |-> q.filename])]
          ELSE /\ req' = [req EXCEPT ![r] = respond(q, 500, [ok |-> FALSE, error |-> "Error"])]
               /\ UNCHANGED files
    /\ UNCHANGED <<now, calls, env, ingestCache, polygonsCache, ingestWrites>>
    /\ UNCHANGED cacheVars

\* the output file has been written (or the write failed); the entry is cached
PreprocessSave(r, written) ==
    /\ req[r].pc = "write"
    /\ LET q == req[r] IN
       IF written
       THEN /\ files' = writeFile(files, q.filename, q.content)
            /\ preprocessCache' = setCached(preprocessCache, preprocessKey(q.args),
                                            [outFilename |-> q.filename], CACHE_TTL_MS, now)
            /\ req' = [req EXCEPT ![r] =
                          respond(q, 200, [ok |-> TRUE, outFilename |-> q.filename])]
       ELSE /\ req' = [req EXCEPT ![r] = respond(q, 500, [ok |-> FALSE, error |-> "Error"])]
            /\ UNCHANGED <<files, preprocessCache>>
    /\ UNCHANGED <<now, calls, env, ingestCache, polygonsCache, ingestWrites>>
    /\ UNCHANGED cacheVars

\* ------------------------------------------------------ POST /api/polygons
\* `${filename}|${threshold}|${minArea}`
polygonsKey(args) ==
    [filename |-> args.filename, threshold |-> args.threshold, minArea |-> args.minArea]

\* the handler up to the first await of generatePolygons (readRasterGrid
\* checks that the file exists and starts reading it)
PolygonsStart(r, args) ==
    /\ req[r].pc = "idle"
    /\ LET q == [req[r] EXCEPT !.kind = "polygons", !.args = args]
           key == polygonsKey(args)
           cached == getCached(polygonsCache, key, now)
       IN  IF args.filename = NoName
           THEN /\ req' = [req EXCEPT ![r] =
                              respond(q, 400, [ok |-> FALSE, error |-> "Missing filename in body"])]
                /\ UNCHANGED polygonsCache
           ELSE /\ polygonsCache' = getCachedEvict(polygonsCache, key, now)
                /\ IF cached # Null
                   THEN req' = [req EXCEPT ![r] =
                                   [respond(q, 200, [ok |-> TRUE, collection |-> cached])
                                       EXCEPT !.fromCache = TRUE,
                                              !.backing = (args.filename \in DOMAIN files)]]
                   ELSE IF args.filename \notin DOMAIN files
                   THEN req' = [req EXCEPT ![r] =
                                   respond(q, 500, [ok |-> FALSE, error |-> "Input file not found"])]
                   ELSE req' = [req EXCEPT ![r] =
                                   [q EXCEPT !.pc = "extract", !.content = files[args.filename]]]
    /\ UNCHANGED <<now, calls, env, ingestCache, preprocessCache, files, ingestWrites>>
    /\ UNCHANGED cacheVars

\* generatePolygons has returned (or readRasterGrid has thrown on bytes that
\* are no image); the collection is cached
PolygonsFinish(r) ==
    /\ req[r].pc = "extract"
    /\ LET q == req[r] IN
       IF q.content.magic = "none"
       THEN /\ req' = [req EXCEPT ![r] =
                          respond(q, 500, [ok |-> FALSE, error |-> "Unable to read image file"])]
            /\ UNCHANGED polygonsCache
       ELSE LET collection == generatePolygons(q.args.filename, decodeRaster(q.content),
                                  q.args.threshold, q.args.minArea, q.args.bbox)
            IN  /\ polygonsCache' = setCached(polygonsCache, polygonsKey(q.args), collection,
                                              CACHE_TTL_MS, now)
                /\ req' = [req EXCEPT ![r] =
                              respond(q, 200, [ok |-> TRUE, collection |-> collection])]
    /\ UNCHANGED <<now, calls, env, ingestCache, preprocessCache, files, ingestWrites>>
    /\ UNCHANGED cacheVars

\* ------------------------------------------------------------ environment
\* an artifact is removed from the data directory (storage.delete)
DeleteFile(name) ==
    /\ name \in DOMAIN files
    /\ files' = MapDelete(files, name)
    /\ UNCHANGED <<now, calls, env, ingestCache, preprocessCache, polygonsCache, req,
                   ingestWrites>>
    /\ UNCHANGED cacheVars

ServerTick ==
    /\ \E d \in ClockSteps : Tick(d)
    /\ UNCHANGED <<calls, env, ingestCache, preprocessCache, polygonsCache, files, req,
                   ingestWrites>>
    /\ UNCHANGED cacheVars

\* ---------------------------------- one acquisition request, any configuration
Dates == {100, 130}
Answers ==
    {[failed |-> TRUE, bytes |-> 0, magic |-> "none"]}
    \cup [failed : {FALSE}, bytes : {500, 2000}, magic : {"png", "tiff", "none"}]
    \cup {[failed |-> FALSE, bytes |-> 0, magic |-> "none"]}

BestArgs ==
    [creds : {"none", "partial", "both"}, date : Dates,
     priority : {DEFAULT_SOURCES, CustomSources}]

IngestArgs ==
    [file : BOOLEAN, bbox : {NoBbox, <<0, 0, 3200, 3200>>}, date : Dates \cup {InvalidDate},
     token : BOOLEAN, format : {"png"}]

InitIngest ==
    /\ now = 1
    /\ kv = EmptyMap
    /\ lastGet = NoGet
    /\ gp = NoCall
    /\ hook = NoHook
    /\ post = NoPost
    /\ env \in [url : BOOLEAN, accessToken : BOOLEAN, creds : BOOLEAN,
                zone : {ZoneUTC, ZoneEast, ZoneWest}]
    /\ ServerIdle

NextIngest ==
    \/ \E args \in IngestArgs : IngestStart(1, args)
    \/ \E outcome \in {"token", "notoken", "failed"} : IngestToken(1, outcome)
    \/ \E answer \in Answers : IngestFetch(1, answer)
    \/ \E written \in BOOLEAN : IngestSave(1, written)
    \/ \E rendered \in BOOLEAN : IngestRender(1, rendered)
    \/ \E written \in BOOLEAN : IngestSavePlaceholder(1, written)
    \/ \E args \in BestArgs : BestStart(1, args)
    \/ \E outcome \in {"token", "notoken", "failed"} : BestToken(1, outcome)
    \/ \E answer \in Answers : BestFetch(1, answer)
    \/ \E written \in BOOLEAN : BestSave(1, written)

SpecIngest == InitIngest /\ [][NextIngest]_vars

\* ------------------------- the server, with token and URL configured
\* the provider fails, answers with an image, or answers with too few bytes
ServerAnswers ==
    {[failed |-> TRUE, bytes |-> 0, magic |-> "none"],
     [failed |-> FALSE, bytes |-> 2000, magic |-> "tiff"],
     [failed |-> FALSE, bytes |-> 500, magic |-> "tiff"]}

ServerIngestArgs ==
    [file : BOOLEAN, bbox : {NoBbox, <<0, 0, 3200, 3200>>}, date : {100},
     token : {FALSE}, format : {"png"}]

\* an artifact left in the data directory by an earlier run of the server
EarlierUpload == artifactName("upload", 0, "tiff")

\* the server has just started: the caches are empty, the data directory
\* holds what earlier runs left there
Init ==
    /\ now = 1
    /\ kv = EmptyMap
    /\ lastGet = NoGet
    /\ gp = NoCall
    /\ hook = NoHook
    /\ post = NoPost
    /\ env = [url |-> TRUE, accessToken |-> TRUE, creds |-> FALSE, zone |-> ZoneUTC]
    /\ ingestCache = EmptyMap
    /\ preprocessCache = EmptyMap
    /\ polygonsCache = EmptyMap
    /\ files = writeFile(EmptyMap, EarlierUpload,
                         [raster |-> "pair", width |-> 64, magic |-> "tiff",
                          normalized |-> FALSE])
    /\ req = [r \in Reqs |-> NewReq]
    /\ ingestWrites = << >>

Next ==
    \/ \E r \in Reqs, args \in ServerIngestArgs : IngestStart(r, args)
    \/ \E r \in Reqs, answer \in ServerAnswers : IngestFetch(r, answer)
    \/ \E r \in Reqs, written \in BOOLEAN : IngestSave(r, written)
    \/ \E r \in Reqs, f \in (DOMAIN files) \cup {EarlierUpload, NoName} :
          PreprocessStart(r, [filename |-> f, bbox |-> NoBbox,
                              outWidth |-> DefaultOutWidth, outFormat |-> "png"])
    \/ \E r \in Reqs : PreprocessEncode(r)
    \/ \E r \in Reqs, written \in BOOLEAN : PreprocessSave(r, written)
    \/ \E r \in Reqs, f \in (DOMAIN files) \cup {EarlierUpload, NoName},
          bbox \in {NoBbox, <<0, 0, 3200, 3200>>} :
          PolygonsStart(r, [filename |-> f, threshold |-> DefaultThreshold,
                            minArea |-> DefaultMinArea, bbox |-> bbox])
    \/ \E r \in Reqs : PolygonsFinish(r)
    \/ \E f \in DOMAIN files : DeleteFile(f)
    \/ ServerTick

Spec == Init /\ [][Next]_vars

\* ------------------------- the hook: startAnalysis and generateAIPlan
\* the operations the user starts, one after the other
MaxOps == 2

\* Coordinates are in 1/10000 degree.  const delta = 0.15
delta == 1500

\* mapCenter [lat, lon]: the initial one (Miami) and one a geocode set
MapCenters == {<<257617, 0 - 801918>>, <<0 - 12921, 368219>>}
Locations == {"Miami, FL", "Nairobi"}

\* [lon - delta, lat - delta, lon + delta, lat + delta]
analysisBbox(mapCenter) ==
    << mapCenter[2] - delta, mapCenter[1] - delta,
       mapCenter[2] + delta, mapCenter[1] + delta >>

\* fetch has rejected (no connection), or resolved with a response
NetworkError == [kind |-> "network", ok |-> FALSE, body |-> Null]
httpResponse(ok, body) == [kind |-> "http", ok |-> ok, body |-> body]
RefusedResponse == httpResponse(FALSE, [ok |-> FALSE, error |-> "Error"])

\* faulty variant: the status of the response is not looked at
responseRefusedNever(resp) == FALSE

\* if (!resp.ok) throw new Error(...)
responseRefused(resp) == ~resp.ok

\* (ingestData.path || '').split('/').pop()
ingestFilenameOf(ingestData) ==
    IF "path" \in DOMAIN ingestData THEN ingestData.path ELSE NoName

\* preprocessData.outFilename
processedFilenameOf(preprocessData) ==
    IF "outFilename" \in DOMAIN preprocessData THEN preprocessData.outFilename ELSE NoName

\* what POST /api/ingest answers the hook at time t: a failure, or the
\* payload of an upload (with its size), of imagery fetched or cached, or of
\* a placeholder
hookIngestAnswers(selectedImage, t) ==
    {NetworkError, RefusedResponse} \cup
    (IF selectedImage
     THEN {httpResponse(TRUE, [ok |-> TRUE, source |-> "upload",
                               path |-> artifactName("upload", t, "tiff"), size |-> size]) :
              size \in {0, 350000}}
     ELSE {httpResponse(TRUE, [ok |-> TRUE, source |-> source,
                               path |-> artifactName("sentinel", t, "tiff")]) :
              source \in {"sentinel-hub", "cache"}}
          \cup {httpResponse(TRUE, [ok |-> TRUE, source |-> "placeholder",
                                    path |-> artifactName("placeholder", t, "png")])})

\* what POST /api/preprocess answers at time t
hookPreprocessAnswers(t) ==
    {NetworkError, RefusedResponse,
     httpResponse(TRUE, [ok |-> TRUE, outFilename |-> artifactName("processed", t, "png")])}

\* the run of generatePolygons behind the answer of POST /api/polygons to a
\* request with this body, the processed artifact showing `raster`
hookExtraction(body, raster) ==
    generatePolygonsRun(body.filename,
                        decodeRaster([raster |-> raster, width |-> DefaultOutWidth,
                                      magic |-> "png", normalized |-> TRUE]),
                        IF "threshold" \in DOMAIN body THEN body.threshold ELSE DefaultThreshold,
                        IF "minArea" \in DOMAIN body THEN body.minArea ELSE DefaultMinArea,
                        IF "bbox" \in DOMAIN body THEN body.bbox ELSE NoBbox)

HookRasters == {"blob", "pair", "wide", "faint"}

\* f.geometry.coordinates[0].map(c => [c[1], c[0]])
leafletRing(f) ==
    [region |-> {[x0 |-> r.y0, y0 |-> r.x0, x1 |-> r.y1, y1 |-> r.x1] : r \in f.region}]

HookIdle ==
    [phase |-> "hook", pc |-> "idle", op |-> "none", ops |-> 0,
     loading |-> FALSE, agentStatus |-> "IDLE", activePlan |-> Null,
     location |-> "Miami, FL", mapCenter |-> <<257617, 0 - 801918>>,
     selectedImage |-> FALSE,
     issued |-> << >>, results |-> << >>, bbox |-> NoBbox,
     ingestData |-> Null, extraction |-> NoCall, metrics |-> NoMetrics]

\* the catch block of startAnalysis and its finally
analysisFails(h) ==
    [h EXCEPT !.loading = FALSE, !.agentStatus = "IDLE", !.pc = "idle"]

\* setLocation; the effect on [location, activePlan] then clears a plan made
\* for another location, and the geocode may move the map
SetLocation(location, mapCenter) ==
    /\ hook.phase = "hook"
    /\ location # hook.location
    /\ LET h == [hook EXCEPT !.location = location, !.mapCenter = mapCenter] IN
       IF h.activePlan # Null /\ location # h.activePlan.location
       THEN hook' = [h EXCEPT !.activePlan = Null, !.agentStatus = "IDLE"]
       ELSE hook' = h
    /\ UNCHANGED <<now, kv, lastGet, gp, post>>
    /\ UNCHANGED serverVars

\* setSelectedImage
SetSelectedImage(selected) ==
    /\ hook.phase = "hook"
    /\ hook.pc = "idle"
    /\ selected # hook.selectedImage
    /\ hook' = [hook EXCEPT !.selectedImage = selected]
    /\ UNCHANGED <<now, kv, lastGet, gp, post>>
    /\ UNCHANGED serverVars

\* startAnalysis up to the await of the ingest request
StartAnalysis(today) ==
    /\ hook.phase = "hook"
    /\ hook.pc = "idle"
    /\ hook.ops < MaxOps
    /\ LET bbox == analysisBbox(hook.mapCenter) IN
       hook' = [hook EXCEPT !.op = "startAnalysis", !.ops = hook.ops + 1,
                            !.loading = TRUE, !.agentStatus = "OBSERVING",
                            !.bbox = bbox,
                            !.issued = << [stage |-> "/api/ingest",
                                           upload |-> hook.selectedImage,
                                           body |-> [bbox |-> bbox, date |-> today - 3]] >>,
                            !.results = << >>, !.ingestData = Null,
                            !.extraction = NoCall, !.metrics = NoMetrics,
                            !.pc = "ingest"]
    /\ UNCHANGED <<now, kv, lastGet, gp, post>>
    /\ UNCHANGED serverVars

\* the ingest request has ended; on success the preprocess request goes out
HookIngestAnswer(resp) ==
    /\ hook.phase = "hook"
    /\ hook.pc = "ingest"
    /\ resp \in hookIngestAnswers(hook.selectedImage, now)
    /\ LET h == [hook EXCEPT !.results = Append(hook.results,
                                               IF resp.ok THEN "ok" ELSE "failed")]
       IN  IF resp = NetworkError \/ responseRefused(resp)
           THEN hook' = analysisFails(h)
           ELSE hook' = [h EXCEPT !.ingestData = resp.body,
                                  !.agentStatus = "ORIENTING",
                                  !.issued = Append(h.issued,
                                      [stage |-> "/api/preprocess",
                                       body |-> [filename |-> ingestFilenameOf(resp.body),
                                                 bbox |-> h.bbox]]),
                                  !.pc = "preprocess"]
    /\ UNCHANGED <<now, kv, lastGet, gp, post>>
    /\ UNCHANGED serverVars

\* the preprocess request has ended; on success the polygons request goes
\* out, with the name of the processed artifact and nothing else
HookPreprocessAnswer(resp) ==
    /\ hook.phase = "hook"
    /\ hook.pc = "preprocess"
    /\ resp \in hookPreprocessAnswers(now)
    /\ LET h == [hook EXCEPT !.results = Append(hook.results,
                                               IF resp.ok THEN "ok" ELSE "failed")]
       IN  IF resp = NetworkError \/ responseRefused(resp)
           THEN hook' = analysisFails(h)
           ELSE hook' = [h EXCEPT !.agentStatus = "DECIDING",
                                  !.issued = Append(h.issued,
                                      [stage |-> "/api/polygons",
                                       body |-> [filename |-> processedFilenameOf(resp.body)]]),
                                  !.pc = "polygons"]
    /\ UNCHANGED <<now, kv, lastGet, gp, post>>
    /\ UNCHANGED serverVars

\* the polygons request has ended: refused, or answered with the collection
\* generatePolygons made of the processed artifact; on success the weather
\* is asked for
HookPolygonsAnswer(answer, raster) ==
    /\ hook.phase = "hook"
    /\ hook.pc = "polygons"
    /\ LET request == hook.issued[Len(hook.issued)]
           run == hookExtraction(request.body, raster)
           resp == CASE answer = "network" -> NetworkError
                     [] answer = "refused" -> RefusedResponse
                     [] OTHER -> httpResponse(TRUE, [ok |-> TRUE, collection |-> run.collection])
           h == [hook EXCEPT !.results = Append(hook.results,
                                               IF resp.ok THEN "ok" ELSE "failed")]
       IN  IF resp = NetworkError \/ responseRefused(resp)
           THEN hook' = analysisFails(h)
           ELSE hook' = [h EXCEPT !.extraction =
                                      IF "collection" \in DOMAIN resp.body
                                      THEN run
                                      ELSE [run EXCEPT !.collection = EmptyCollection],
                                  !.agentStatus = "ACTING",
                                  !.issued = Append(h.issued,
                                      [stage |-> "/api/weather",
                                       body |-> [lat |-> h.bbox[2] + delta,
                                                 lon |-> h.bbox[1] + delta]]),
                                  !.pc = "weather"]
    /\ UNCHANGED <<now, kv, lastGet, gp, post>>
    /\ UNCHANGED serverVars

\* the weather has come (or null): the polygons are converted, the confidence
\* is computed, the plan is set and the AI plan is asked for
HookWeatherAnswer(weather) ==
    /\ hook.phase = "hook"
    /\ hook.pc = "weather"
    /\ LET features == hook.extraction.collection.features
           floodPolygons == [i \in 1..Len(features) |-> leafletRing(features[i])]
           n == Len(floodPolygons)
           size == IF "size" \in DOMAIN hook.ingestData THEN hook.ingestData.size ELSE NoSize
           source == "source" \in DOMAIN hook.ingestData
           satellite == satelliteConfidence(size, n)
           wconf == weatherConfidence(weather)
           documents == documentConfidence(source, n)
       IN  \E overall \in overallConfidence(satellite, wconf, documents) :
              LET metrics == [computed |-> TRUE,
                              imageryQuality |-> imageryQuality(size),
                              polygonConfidence |-> polygonConfidence(n),
                              satellite |-> satellite, weather |-> wconf,
                              documents |-> documents, overall |-> overall]
              IN  hook' = [hook EXCEPT
                              !.results = Append(hook.results, "ok"),
                              !.metrics = metrics,
                              !.activePlan = [location |-> hook.location, ai |-> FALSE,
                                              floodPolygons |-> floodPolygons,
                                              overallConfidence |-> overall],
                              !.agentStatus = "OBSERVING",
                              !.issued = Append(hook.issued,
                                  [stage |-> "/api/gemini-plan",
                                   body |-> [location |-> hook.location,
                                             floodPolygons |-> floodPolygons]]),
                              !.pc = "gemini"]
    /\ UNCHANGED <<now, kv, lastGet, gp, post>>
    /\ UNCHANGED serverVars

\* the AI plan request of startAnalysis has ended: the plan is replaced, or
\* the failure is shown; then the finally block
HookGeminiAnswer(resp) ==
    /\ hook.phase = "hook"
    /\ hook.pc = "gemini"
    /\ LET request == hook.issued[Len(hook.issued)]
           h == [hook EXCEPT !.results = Append(hook.results,
                                               IF resp.ok THEN "ok" ELSE "failed"),
                             !.loading = FALSE, !.agentStatus = "IDLE", !.pc = "idle"]
       IN  IF resp # NetworkError /\ resp.ok
           THEN hook' = [h EXCEPT !.activePlan =
                                     [hook.activePlan EXCEPT !.ai = TRUE,
                                                             !.location = request.body.location]]
           ELSE hook' = h
    /\ UNCHANGED <<now, kv, lastGet, gp, post>>
    /\ UNCHANGED serverVars

\* generateAIPlan up to its return without a plan, or to the await of the
\* request
GenerateAIPlan ==
    /\ hook.phase = "hook"
    /\ hook.pc = "idle"
    /\ hook.ops < MaxOps
    /\ IF hook.activePlan = Null
       THEN hook' = [hook EXCEPT !.op = "generateAIPlan", !.ops = hook.ops + 1,
                                 !.issued = << >>, !.results = << >>]
       ELSE hook' = [hook EXCEPT !.op = "generateAIPlan", !.ops = hook.ops + 1,
                                 !.loading = TRUE, !.agentStatus = "OBSERVING",
                                 !.issued = << [stage |-> "/api/gemini-plan",
                                                body |-> [location |-> hook.location,
                                                          floodPolygons |->
                                                              hook.activePlan.floodPolygons]] >>,
                                 !.results = << >>,
                                 !.pc = "aiplan"]
    /\ UNCHANGED <<now, kv, lastGet, gp, post>>
    /\ UNCHANGED serverVars

\* the request of generateAIPlan has ended: on success the plan is set and
\* the status goes to IDLE; on failure the catch block shows the error; the
\* finally block sets loading to false
HookAIPlanAnswer(resp) ==
    /\ hook.phase = "hook"
    /\ hook.pc = "aiplan"
    /\ LET request == hook.issued[Len(hook.issued)]
           h == [hook EXCEPT !.results = Append(hook.results,
                                               IF resp.ok THEN "ok" ELSE "failed"),
                             !.loading = FALSE, !.pc = "idle"]
       IN  IF resp = NetworkError \/ responseRefused(resp)
           THEN hook' = h
           ELSE hook' = [h EXCEPT !.activePlan =
                                     [hook.activePlan EXCEPT !.ai = TRUE,
                                                             !.location = request.body.location],
                                  !.agentStatus = "IDLE"]
    /\ UNCHANGED <<now, kv, lastGet, gp, post>>
    /\ UNCHANGED serverVars

\* the clock of the server the answers take their artifact names from
HookTimes == {1, 2}
HookTick ==
    /\ hook.phase = "hook"
    /\ now + 1 \in HookTimes
    /\ now' = now + 1
    /\ UNCHANGED <<kv, lastGet, gp, hook, post>>
    /\ UNCHANGED serverVars

GeminiAnswers ==
    {NetworkError, RefusedResponse, httpResponse(TRUE, [riskLevel |-> "MEDIUM"])}

InitHook ==
    /\ now = 1
    /\ kv = EmptyMap
    /\ lastGet = NoGet
    /\ gp = NoCall
    /\ hook = HookIdle
    /\ post = NoPost
    /\ env = [url |-> FALSE, accessToken |-> FALSE, creds |-> FALSE, zone |-> ZoneUTC]
    /\ ServerIdle

NextHook ==
    \/ \E location \in Locations, mapCenter \in MapCenters : SetLocation(location, mapCenter)
    \/ \E selected \in BOOLEAN : SetSelectedImage(selected)
    \/ \E today \in Dates : StartAnalysis(today)
    \/ \E resp \in UNION {hookIngestAnswers(selected, t) : selected \in BOOLEAN, t \in HookTimes} :
          HookIngestAnswer(resp)
    \/ \E resp \in UNION {hookPreprocessAnswers(t) : t \in HookTimes} :
          HookPreprocessAnswer(resp)
    \/ \E answer \in {"network", "refused", "collection"}, raster \in HookRasters :
          HookPolygonsAnswer(answer, raster)
    \/ \E weather \in WeatherInputs : HookWeatherAnswer(weather)
    \/ \E resp \in GeminiAnswers : HookGeminiAnswer(resp)
    \/ GenerateAIPlan
    \/ \E resp \in GeminiAnswers : HookAIPlanAnswer(resp)
    \/ HookTick

SpecHook == InitHook /\ [][NextHook]_vars

\* ----------------------------------------------------------------- claims
\* C1: getCached never returns the value of an entry whose expiry timestamp
\* (the time of the set plus its ttl) lies before the current time: for such
\* an entry it returns null.
C1_ExpiredNeverReturned ==
    (lastGet.found /\ lastGet.expired) => lastGet.result = Null

\* a getCached call that met an expired entry
C1_Witness ==
    lastGet.found /\ lastGet.expired /\ lastGet.stored # Null

\* C2: whatever the interleaving of the setCached calls of concurrently
\* running requests for one key, an unexpired getCached for the key returns
\* exactly the value of the set that executed last: never an earlier value,
\* never a mix of two.
C2_LastWriteWins ==
    \A k \in DOMAIN ingestCache :
        LET got == getCached(ingestCache, k, now)
            writes == {i \in 1..Len(ingestWrites) : ingestWrites[i].key = k}
        IN  got # Null =>
                /\ writes # {}
                /\ \E last \in writes :
                      /\ \A i \in writes : i <= last
                      /\ got = ingestWrites[last].value

\* two requests for one key ran concurrently (the second was in flight when
\* the first wrote) and wrote different values, the second of them wrote
\* last, and the key has not expired
C2_Witness ==
    \E i, j \in 1..Len(ingestWrites) :
        /\ i < j
        /\ j = Len(ingestWrites)
        /\ ingestWrites[i].key = ingestWrites[j].key
        /\ ingestWrites[i].concurrent
        /\ ingestWrites[i].value # ingestWrites[j].value
        /\ getCached(ingestCache, ingestWrites[j].key, now) = ingestWrites[j].value

\* C3: in each of the three caches, a request that finds an unexpired entry
\* whose artifact file is no longer in the data directory is handled as a
\* miss and never answered from the cache.
C3_MissingArtifactIsMiss ==
    \A r \in Reqs :
        (req[r].pc = "done" /\ req[r].fromCache) => req[r].backing

\* C4: two extractions with the same (artifact, threshold, minArea) yield the
\* same number of polygons with the same areas, from the cache or recomputed,
\* whatever bounding box either call supplied.
C4_ExtractionIdempotent ==
    \A r1, r2 \in Reqs :
        (/\ req[r1].kind = "polygons" /\ req[r2].kind = "polygons"
         /\ req[r1].pc = "done" /\ req[r2].pc = "done"
         /\ req[r1].resp.status = 200 /\ req[r2].resp.status = 200
         /\ polygonsKey(req[r1].args) = polygonsKey(req[r2].args))
        => collectionAreas(req[r1].resp.body.collection)
               = collectionAreas(req[r2].resp.body.collection)

\* C10: more than 500 raw contours make generatePolygons return an empty
\* collection with nothing mapped, filtered or merged; 500 or fewer contours
\* do not trigger this guard.
C10_NoiseGuard ==
    gp.phase = "returned" =>
        /\ gp.run.nContours > 500 =>
              /\ gp.run.stage = "noise"
              /\ gp.run.collection.features = << >>
              /\ gp.run.nMapped = 0
              /\ gp.run.nFiltered = 0
        /\ gp.run.nContours <= 500 => gp.run.stage # "noise"

\* one run with 501 contours that was cut off
C10_Witness ==
    /\ gp.phase = "returned"
    /\ gp.run.nContours = 501
    /\ gp.run.stage = "noise"

\* one run with exactly 500 contours that went through to the end
C10_WitnessAtCeiling ==
    /\ gp.phase = "returned"
    /\ gp.run.nContours = 500
    /\ gp.run.stage = "done"
    /\ Len(gp.run.collection.features) = 500

\* C11: with a bounding box, when the total area of the area-filtered
\* polygons exceeds 30% of the area of the box, generatePolygons returns an
\* empty collection; so a non-empty collection returned for a request with a
\* bounding box has a total polygon area of at most 30% of the box.
C11_CoverageGuard ==
    (gp.phase = "returned" /\ gp.bbox # NoBbox) =>
        LET box == (gp.bbox[3] - gp.bbox[1]) * (gp.bbox[4] - gp.bbox[2]) IN
        /\ totalArea(gp.run.filtered) * 100 > 30 * box
              => gp.run.collection.features = << >>
        /\ gp.run.collection.features # << >>
              => totalArea(gp.run.collection.features) * 100 <= 30 * box

\* two polygons, each below 30% of the box, together above it: nothing is
\* returned although the contour count is far below the noise ceiling
C11_Witness ==
    /\ gp.phase = "returned"
    /\ gp.bbox # NoBbox
    /\ gp.run.stage = "coverage"
    /\ gp.run.nContours = 2
    /\ Len(gp.run.filtered) = 2
    /\ \A i \in 1..2 :
          turfArea(gp.run.filtered[i]) * 100
              <= 30 * (gp.bbox[3] - gp.bbox[1]) * (gp.bbox[4] - gp.bbox[2])
    /\ gp.run.collection.features = << >>

\* a run with a bounding box that returned polygons
C11_WitnessBelow ==
    /\ gp.phase = "returned"
    /\ gp.bbox # NoBbox
    /\ gp.run.stage = "done"
    /\ gp.run.collection.features # << >>

C12_WitnessDistinct ==
    /\ gp.phase = "returned"
    /\ gp.run.stage = "done"
    /\ Len(gp.run.filtered) = 2
    /\ turfArea(turfIntersect(gp.run.filtered[1], gp.run.filtered[2])) * 20
          = Min(turfArea(gp.run.filtered[1]), turfArea(gp.run.filtered[2]))
    /\ gp.run.collection.features = gp.run.filtered

\* a third polygon that overlapped neither of two others by more than 10%
\* exceeded 10% against their union and was merged in a further round
C12_WitnessSecondRound ==
    /\ gp.phase = "returned"
    /\ gp.run.stage = "done"
    /\ Len(gp.run.filtered) = 3
    /\ turfArea(turfIntersect(gp.run.filtered[1], gp.run.filtered[3])) * 100
          <= 10 * turfArea(gp.run.filtered[3])
    /\ turfArea(turfIntersect(gp.run.filtered[2], gp.run.filtered[3])) * 100
          <= 10 * turfArea(gp.run.filtered[3])
    /\ Len(gp.run.collection.features) = 1

\* C13: with the other inputs fixed, a larger artifact size (anywhere from 0
\* up to the cap and beyond) never gives a lower imagery quality or satellite
\* confidence, and a larger polygon count never gives a lower polygon
\* confidence or satellite confidence.
C13_ConfidenceMonotone ==
    (hook.phase = "confidence" /\ hook.out[1].computed /\ hook.out[2].computed) =>
        LET a == hook.in[1]
            b == hook.in[2]
            ra == hook.out[1]
            rb == hook.out[2]
        IN  /\ (/\ a.polygons = b.polygons
                /\ a.size # NoSize /\ b.size # NoSize
                /\ a.size <= b.size)
               => /\ ra.imageryQuality <= rb.imageryQuality
                  /\ ra.satellite <= rb.satellite
            /\ (a.size = b.size /\ a.polygons <= b.polygons)
               => /\ ra.polygonConfidence <= rb.polygonConfidence
                  /\ ra.satellite <= rb.satellite

\* C14: for every artifact size, polygon count, source provenance and
\* weather availability, the satellite, weather and documents scores and the
\* overall score (the rounded sum 0.40 satellite + 0.35 weather + 0.25
\* documents) lie within 0..100.
C14_ScoresInRange ==
    \A i \in {1, 2} :
        (hook.phase = "confidence" /\ hook.out[i].computed) =>
            LET r == hook.out[i] IN
            /\ r.satellite \in 0..100
            /\ r.weather \in 0..100
            /\ r.documents \in 0..100
            /\ r.overall \in 0..100
            /\ 100 * r.overall - 50 <= 40 * r.satellite + 35 * r.weather + 25 * r.documents
            /\ 40 * r.satellite + 35 * r.weather + 25 * r.documents <= 100 * r.overall + 50

\* a run at the caps: the largest artifact, the most polygons, a named
\* source and weather, with every score computed
C14_Witness ==
    /\ hook.phase = "confidence"
    /\ hook.out[1].computed
    /\ hook.in[1].size = 1000000
    /\ hook.in[1].polygons = 7
    /\ hook.in[1].source
    /\ hook.in[1].weather.available
    /\ hook.out[1].satellite = 95
    /\ hook.out[1].weather = 70
    /\ hook.out[1].documents = 60
    /\ hook.out[1].overall >= 77

\* a run at the floor: the smallest artifact, no polygon, no source, no weather
C14_WitnessFloor ==
    /\ hook.phase = "confidence"
    /\ hook.out[1].computed
    /\ hook.in[1].size = 1
    /\ hook.in[1].polygons = 0
    /\ ~hook.in[1].source
    /\ ~hook.in[1].weather.available
    /\ hook.out[1].satellite = 35

\* C15: every invocation of a stage (the /api/ingest, /api/preprocess and
\* /api/polygons handlers, and ingestBest) ends with one structured success
\* or structured failure; no failure leaves the stage as a thrown exception.
C15_StructuredResults ==
    \A r \in Reqs :
        req[r].pc = "done" =>
            LET q == req[r]
                body == q.resp.body
            IN  /\ "thrown" \notin DOMAIN body
                /\ IF q.kind = "best"
                   THEN "success" \in DOMAIN body
                   ELSE /\ q.resp.status \in {200, 400, 500}
                        /\ q.resp.status = 200 => ("ok" \in DOMAIN body /\ body.ok)
                        /\ q.resp.status # 200 => "error" \in DOMAIN body

C16_WitnessExhausted ==
    \E r \in Reqs :
        /\ req[r].kind = "best"
        /\ req[r].pc = "done"
        /\ Len(req[r].sent) = 3
        /\ "success" \in DOMAIN req[r].resp.body
        /\ ~req[r].resp.body.success

\* C17: for every date acquisition attempts, each fallback date included,
\* the whole sensor priority list is swept (every sensor profile requested in
\* priority order until one yields data) before acquisition moves on to the
\* next older date.
C17_SweepPerDate ==
    \A r \in Reqs :
        LET q == req[r]
            sensors == {DEFAULT_SOURCES[k].id : k \in 1..Len(DEFAULT_SOURCES)}
            requestedFor(d) == {q.sent[j].source : j \in {j \in 1..Len(q.sent) :
                                                              q.sent[j].date = d}}
        IN  \A i \in 1..(Len(q.sent) - 1) :
               q.sent[i + 1].date # q.sent[i].date =>
                   /\ q.sent[i].outcome \in {"nodata", "unsaved"}
                   /\ requestedFor(q.sent[i].date) = sensors

\* C18: a call of axiosPostWithRetry with the default arguments issues at
\* most 4 POSTs, waits 1000, 2000 and 4000 ms before the 2nd, 3rd and 4th
\* (the delay doubles after every failed attempt), issues no POST after the
\* first that succeeds, and rethrows the last error once the budget is used up.
C18_RetryBudget ==
    (/\ post.phase # "none"
     /\ post.args.retries = DefaultRetries
     /\ post.args.delay = DefaultDelay) =>
        LET issued == Len(post.posts) + (IF post.phase = "post" THEN 1 ELSE 0)
            n == Len(post.posts)
        IN  /\ issued <= 4
            /\ Len(post.waits) <= 3
            /\ \A i \in 1..Len(post.waits) : post.waits[i] = <<1000, 2000, 4000>>[i]
            /\ issued = Len(post.waits) + 1
            /\ \A i \in 1..(n - 1) : post.posts[i] # "ok"
            /\ post.phase = "returned" => post.posts[n] = "ok"
            /\ post.phase = "thrown" =>
                   /\ n = 4
                   /\ post.posts[n] # "ok"
                   /\ post.error = post.posts[n]
            /\ (post.phase = "wait" \/ post.phase = "post") => n < 4

\* four POSTs failed, with waits of 1000, 2000 and 4000 ms between them, and
\* the error of the fourth was thrown
C18_Witness ==
    /\ post.phase = "thrown"
    /\ post.args.retries = DefaultRetries
    /\ post.args.delay = DefaultDelay
    /\ Len(post.posts) = 4
    /\ post.waits = <<1000, 2000, 4000>>
    /\ post.posts[3] = "network"
    /\ post.posts[4] = "5xx"
    /\ post.error = "5xx"

\* the second POST succeeded and no third one went out
C18_WitnessSuccess ==
    /\ post.phase = "returned"
    /\ post.args.retries = DefaultRetries
    /\ post.args.delay = DefaultDelay
    /\ post.posts = <<"5xx", "ok">>
    /\ post.waits = <<1000>>

\* C19: a provider request is retried only after a transient transport
\* failure (network error or 5xx response); a failure of another kind (a 4xx
\* rejection of the body or of the credentials) is passed on without a retry.
C19_RetryTransientOnly ==
    post.phase # "none" =>
        \A i \in 1..Len(post.posts) :
            post.posts[i] = "4xx" =>
                /\ i = Len(post.posts)
                /\ post.phase = "thrown"
                /\ post.error = "4xx"

\* C20: tryFetchImagery accepts a received payload if and only if it starts
\* with the PNG magic header for a declared PNG encoding, with the TIFF magic
\* header for a declared TIFF encoding, and is non-empty for any other
\* declared encoding; a rejected payload ends that (sensor, date) attempt as
\* no data: no file is saved and the same request is not sent again.
C20_PayloadValidation ==
    \A r \in Reqs :
        LET q == req[r]
            n == Len(q.sent)
            \* the request the recorded answer belongs to: the last one settled
            j == IF n > 0 /\ q.sent[n].outcome = "pending" THEN n - 1 ELSE n
            declared ==
                IF q.kind = "best"
                THEN LET k == CHOOSE k \in 1..Len(q.args.priority) :
                                  q.args.priority[k].id = q.sent[j].source
                     IN  q.args.priority[k].outputFormat
                ELSE "image/png"
            matches ==
                CASE declared = "image/png"  -> q.answer.magic = "png"
                  [] declared = "image/tiff" -> q.answer.magic = "tiff"
                  [] OTHER -> q.answer.bytes # 0
        IN  /\ (j > 0 /\ q.answer # Null /\ ~q.answer.failed) =>
                   /\ (q.sent[j].outcome \in {"valid", "unsaved"}) <=> matches
                   /\ q.sent[j].outcome = "nodata" => q.pc # "save"
            /\ \A i \in 1..n : \A m \in 1..n :
                   (i < m /\ q.sent[i].outcome = "nodata") =>
                       ~(/\ q.sent[m].source = q.sent[i].source
                         /\ q.sent[m].date = q.sent[i].date)

\* C21: with a static access token configured, acquisition sends every
\* provider request with a token and performs no OAuth client-credentials
\* exchange; the exchange happens only when no static token is available.
C21_StaticTokenNoExchange ==
    \A r \in Reqs :
        (env.accessToken /\ req[r].kind \in {"ingest", "best"}) =>
            /\ req[r].pc # "token"
            /\ req[r].exchange = "none"
            /\ req[r].sent # << >> => req[r].tokenToUse

\* C22: an acquisition in progress is cancellable: once the overall timeout
\* or the cancellation signal of a request has fired, no further provider
\* request and no further backoff delay is started for it.
C22_Cancellable ==
    [][ (post.phase # "none" /\ post.cancelled) =>
            /\ ~(post.phase = "wait" /\ post'.phase = "post")
            /\ ~(post.phase = "post" /\ post'.phase = "wait") ]_vars

C23_WitnessCaller ==
    /\ gp.phase = "returned"
    /\ gp.filename.prefix = "upload"
    /\ gp.threshold = 160
    /\ gp.minArea = 300
    /\ gp.run.threshold = 160
    /\ gp.run.minArea = 300
    /\ Len(gp.run.collection.features) > 0

\* C25: mergeOverlappingPolygons terminates on every finite input: each pass
\* of the loop either merges exactly one pair, which lowers the polygon count
\* by one, or finds no qualifying pair and ends the loop; at most n-1 merges
\* happen for n input polygons and the result never has more polygons than
\* the input.
C25_MergeTerminates ==
    /\ [](gp.phase \in {"scan", "scanned", "returned"} =>
            LET n == Len(gp.features) IN
            /\ Len(gp.merged) = n - gp.merges
            /\ gp.merges <= (IF n = 0 THEN 0 ELSE n - 1)
            /\ gp.passes <= gp.merges + 1
            /\ Len(gp.merged) <= n
            /\ gp.phase = "returned" =>
                   /\ gp.passes = (IF n = 0 THEN 0 ELSE gp.merges + 1)
                   /\ firstOverlap(gp.merged, gp.thresholdPct) = << >>
                   /\ gp.merged = mergeOverlappingPolygons(gp.features, gp.thresholdPct))
    /\ <>(gp.phase = "returned")

\* three polygons became one in two merges and a third, last pass
C25_Witness ==
    /\ gp.phase = "returned"
    /\ Len(gp.features) = 3
    /\ gp.merges = 2
    /\ gp.passes = 3
    /\ Len(gp.merged) = 1

\* no pair qualified: one pass and the input comes back
C25_WitnessNoMerge ==
    /\ gp.phase = "returned"
    /\ Len(gp.features) = 3
    /\ gp.merges = 0
    /\ gp.passes = 1
    /\ gp.merged = gp.features

\* C26: a POST /api/ingest, /api/preprocess or /api/polygons request that
\* ends in a failure response (4xx or 5xx) writes no entry to any of the three
\* caches: an entry is added or changed only by the step in which a request
\* is answered with success, and an entry disappears only when a lookup
\* finds it expired.
C26_FailureWritesNoCache ==
    [][ LET written(old, new) ==
                {k \in DOMAIN new : k \notin DOMAIN old \/ new[k] # old[k]}
            evictedOnly(old, new) ==
                \A k \in (DOMAIN old) \ (DOMAIN new) :
                    old[k].expires # 0 /\ now > old[k].expires
            succeeds(kind) ==
                \E r \in Reqs : /\ req[r].pc # "done"
                                /\ req'[r].pc = "done"
                                /\ req'[r].kind = kind
                                /\ req'[r].resp.status = 200
            fails == \E r \in Reqs : /\ req[r].pc # "done"
                                     /\ req'[r].pc = "done"
                                     /\ req'[r].resp.status >= 400
        IN  /\ written(ingestCache, ingestCache') # {} => succeeds("ingest")
            /\ written(preprocessCache, preprocessCache') # {} => succeeds("preprocess")
            /\ written(polygonsCache, polygonsCache') # {} => succeeds("polygons")
            /\ evictedOnly(ingestCache, ingestCache')
            /\ evictedOnly(preprocessCache, preprocessCache')
            /\ evictedOnly(polygonsCache, polygonsCache')
            /\ fails => /\ written(ingestCache, ingestCache') = {}
                        /\ written(preprocessCache, preprocessCache') = {}
                        /\ written(polygonsCache, polygonsCache') = {} ]_vars

\* a preprocess request got as far as the write of its output and was
\* answered 500, and its key is in no cache, while another entry is cached
C26_Witness ==
    \E r \in Reqs :
        /\ req[r].pc = "done"
        /\ req[r].kind = "preprocess"
        /\ req[r].resp.status = 500
        /\ req[r].filename # NoName
        /\ preprocessKey(req[r].args) \notin DOMAIN preprocessCache
        /\ DOMAIN ingestCache # {}

\* C27: requests that run concurrently never write to the same artifact
\* file: every artifact name generated by upload, ingest, placeholder
\* generation or preprocessing differs from the name of every artifact saved
\* before it, so no file already in the data directory is written again.
C27_DistinctArtifactNames ==
    [][ \A r \in Reqs :
          LET answered == req[r].pc # "done" /\ req'[r].pc = "done" /\
                          req'[r].resp.status = 200
              saved ==
                  IF answered /\ req[r].pc \in {"save", "savePlaceholder", "write"}
                  THEN req[r].filename
                  ELSE IF answered /\ req[r].pc = "idle" /\ req'[r].kind = "ingest"
                          /\ req'[r].args.file
                  THEN req'[r].resp.body.path
                  ELSE NoName
          IN  saved # NoName => saved \notin DOMAIN files ]_vars

\* C24: within one startAnalysis the stages run strictly in the order
\* acquire, preprocess, extract, score: the request of each stage is issued
\* only after the previous stage has returned success, and a failure of any
\* stage prevents every later stage of that run from being issued.
C24_StagesInOrder ==
    (hook.phase = "hook" /\ hook.op = "startAnalysis") =>
        LET order == <<"/api/ingest", "/api/preprocess", "/api/polygons", "/api/weather",
                       "/api/gemini-plan">>
            n == Len(hook.issued)
        IN  /\ n <= Len(order)
            /\ \A i \in 1..n : hook.issued[i].stage = order[i]
            /\ Len(hook.results) \in {n - 1, n}
            /\ \A i \in 2..n : hook.results[i - 1] = "ok"
            /\ \A i \in 1..Len(hook.results) :
                   (i <= 4 /\ hook.results[i] = "failed") => (n = i /\ hook.pc = "idle")
            /\ hook.metrics.computed =>
                   (n >= 4 /\ \A i \in 1..3 : hook.results[i] = "ok")

\* a run went through all four stages and computed its confidence
C24_Witness ==
    /\ hook.phase = "hook"
    /\ hook.op = "startAnalysis"
    /\ Len(hook.issued) = 5
    /\ hook.metrics.computed
    /\ Len(hook.extraction.collection.features) > 0

\* the preprocess request was refused and the run ended with two requests
C24_WitnessFailure ==
    /\ hook.phase = "hook"
    /\ hook.op = "startAnalysis"
    /\ hook.pc = "idle"
    /\ hook.results = <<"ok", "failed">>
    /\ Len(hook.issued) = 2
    /\ ~hook.metrics.computed

\* C28: in the pipeline of startAnalysis the extraction request carries the
\* bounding box of the acquisition request of that run, so the polygons
\* returned are rings of geographic coordinates inside that bounding box and
\* the coverage guard is evaluated.
C28_ExtractionCarriesBbox ==
    (hook.phase = "hook" /\ hook.op = "startAnalysis" /\ Len(hook.issued) >= 3) =>
        LET acquire == hook.issued[1].body
            extract == hook.issued[3].body
            inside(f) == \A r \in f.region :
                            /\ acquire.bbox[1] <= r.x0 /\ r.x1 <= acquire.bbox[3]
                            /\ acquire.bbox[2] <= r.y0 /\ r.y1 <= acquire.bbox[4]
        IN  /\ "bbox" \in DOMAIN extract
            /\ extract.bbox = acquire.bbox
            /\ hook.extraction # NoCall =>
                   \A i \in 1..Len(hook.extraction.collection.features) :
                       inside(hook.extraction.collection.features[i])

\* C29: in the pipeline of startAnalysis the artifact name handed to the
\* extraction stage still holds the identifier of the sensor that acquired
\* the imagery, so that for imagery of a known sensor (Sentinel-2, which
\* POST /api/ingest fetches) generatePolygons applies that sensor's preset.
C29_SensorNameReachesExtraction ==
    (/\ hook.phase = "hook" /\ hook.op = "startAnalysis" /\ Len(hook.issued) >= 3
     /\ hook.ingestData # Null
     /\ hook.ingestData.source \in {"sentinel-hub", "cache"}) =>
        /\ nameIncludes(hook.issued[3].body.filename, "sentinel-2")
        /\ hook.extraction # NoCall =>
               (hook.extraction.threshold = 180 /\ hook.extraction.minArea = 100000)

\* C30: whenever startAnalysis or generateAIPlan has finished, on any path,
\* loading is false and agentStatus is IDLE.
C30_IdleWhenFinished ==
    (hook.phase = "hook" /\ hook.op # "none" /\ hook.pc = "idle") =>
        (hook.loading = FALSE /\ hook.agentStatus = "IDLE")

\* C5: after no data for the requested date, the dates attempted are the
\* requested date minus 7, 14, 21, 30, 45 and 60 days, in this order, each at
\* most once, and none is attempted after the first attempt that returned data.
C5_FallbackSchedule ==
    \A r \in Reqs :
        LET q == req[r]
            d == q.args.date
            schedule == <<d, d - 7, d - 14, d - 21, d - 30, d - 45, d - 60>>
        IN  (q.kind = "ingest" /\ q.tried # << >> /\ d # InvalidDate) =>
            /\ Len(q.tried) <= 7
            /\ \A i \in 1..Len(q.tried) : q.tried[i] = schedule[i]
            /\ \A i, j \in 1..Len(q.tried) : i # j => q.tried[i] # q.tried[j]
            /\ Len(q.tried) = q.attempt + 1

\* C6: the result of an acquisition that succeeded on fallback offset k
\* carries the provenance date requestedDate - offsets[k], and the requested
\* date when the first attempt succeeded.
C6_ProvenanceDate ==
    \A r \in Reqs :
        LET q == req[r] IN
        /\ (/\ q.kind = "ingest"
            /\ q.tried # << >>
            /\ q.args.date # InvalidDate
            /\ q.pc = "done"
            /\ q.resp.status = 200
            /\ q.resp.body.source = "sentinel-hub")
           => provenanceDate(q.resp.body) =
                  (IF q.attempt = 0 THEN q.args.date
                   ELSE q.args.date - fallbackOffsets[q.attempt])
        /\ (/\ q.kind = "best"
            /\ q.pc = "done"
            /\ "success" \in DOMAIN q.resp.body
            /\ q.resp.body.success)
           => provenanceDate(q.resp.body) = q.args.date

\* C7: with no access token (environment or body) and no client id/secret,
\* /api/ingest with a valid bbox answers with success and a placeholder
\* artifact, whether or not a processing URL is configured (unless the
\* placeholder itself cannot be rendered or stored).
C7_PlaceholderWithoutAuth ==
    \A r \in Reqs :
        LET q == req[r] IN
        (/\ q.kind = "ingest"
         /\ q.pc = "done"
         /\ ~q.args.file
         /\ q.args.bbox # NoBbox
         /\ ~q.args.token /\ ~env.accessToken /\ ~env.creds)
        => \/ /\ q.resp.status = 200
              /\ q.resp.body.source = "placeholder"
           \/ q.resp.body = [ok |-> FALSE, error |-> "Error"]

\* C8: after a failed credential exchange the acquisition ends in failure:
\* no provider imagery request, no other sensor or date, no placeholder.
C8_ExchangeFailureFatal ==
    \A r \in Reqs :
        LET q == req[r] IN
        q.exchange = "failed" =>
            /\ q.pc = "done"
            /\ q.tried = << >>
            /\ IF q.kind = "ingest" THEN q.resp.status >= 400
               ELSE "thrown" \in DOMAIN q.resp.body

\* C9: the exhaustion failure comes only after the requested date and all six
\* fallback dates were attempted without data, and it names the range
\* searched: from the requested date back to 60 days before it.
C9_ExhaustionAfterAllDates ==
    \A r \in Reqs :
        LET q == req[r] IN
        (/\ q.kind = "ingest"
         /\ q.pc = "done"
         /\ q.resp.status = 500
         /\ q.resp.body.error = "No Sentinel-2 imagery available")
        => /\ q.tried = <<q.args.date, q.args.date - 7, q.args.date - 14, q.args.date - 21,
                        q.args.date - 30, q.args.date - 45, q.args.date - 60>>
           /\ q.resp.body.triedFrom = q.tried[1]
           /\ q.tried[1] - q.resp.body.backToDaysPrior = q.tried[Len(q.tried)]

====
